---- MODULE Spec2Model ----
(***************************************************************************)
(* Verification model of the crypto-futures-advisor API core:              *)
(*   - the scanner service (scheduling loop, runNow guard, snapshot file), *)
(*   - the alert store and the alerts monitor (ticks, rule passes,         *)
(*     dedupe, lazy load, serialized persistence),                         *)
(*   - runSetupScan (bounded-concurrency per-symbol scan).                 *)
(* Time is counted in abstract clock units; 0 stands for null.             *)
(***************************************************************************)
EXTENDS Integers, Sequences, FiniteSets, TLC

\* ---------------------------------------------------------------- bounds
MaxTime == 4
MaxManual == 2
MaxSets == 2

\* ------------------------------------------------------- configuration
\* config.intervalMinutes * 60_000, in clock units
IntervalTicks == 1

VARIABLES
  now,          \* Date.now(), in clock units (0 = null)
  scanFs,       \* scanner-latest.json and its temp file
  cfg,          \* scanner config: enabled, runOnStart
  running,      \* scanner: let running
  lastRunAt,    \* scanner: let lastRunAt (0 = null)
  nextRunAt,    \* scanner: let nextRunAt (0 = null)
  timer,        \* scanner: let timer (the schedule timeout)
  initialTimer, \* scanner: the untracked run-on-start timeout
  latest,       \* scanner: let latest
  started,      \* start() has been called and stop() has not
  bootPc,       \* the constructor's asynchronous load of the snapshot
  runPc,        \* position of each runNow() caller
  runAt,        \* runAt captured by each caller's run
  lastOutcome,  \* how the most recent runNow() call ended, and for whom
  wlFile,       \* watchlist.json: the symbols stored (<<>>: no file)
  wlSet,        \* the PUT /watchlist request: where set() is, and its symbols
  nSets,        \* number of set() calls made
  runWl,        \* per run: where watchlistStore.get() is, and const watchlist
  alertFs,      \* alerts.json and its temp file
  loaded,       \* alert store: let loaded
  alerts,       \* alert store: let alerts (newest first)
  writeQueue,   \* alert store: the writes chained on writeQueue, oldest first
  wqRejected,   \* alert store: writeQueue is a rejected promise
  monRunning,   \* alerts monitor: let running
  nTicks,       \* number of timer ticks that passed the running guard
  settled,      \* per tick: Promise.all has settled and finally has run
  proc,         \* position of each rule pass and of the API request
  nextId,       \* source of fresh alert ids (crypto.randomUUID)
  nApi,         \* number of API requests made
  created,      \* every alert add() has created, as (id, key, at)
  tornRead,     \* some reader has read a partially written file
  readInWrite,  \* the files that were read while a write of them was under way
  lastSend,     \* the last "Telegram send failed" warning: the pass and rule
  scPc,         \* runSetupScan: idle, mapping, returned
  scConc,       \* runSetupScan: params.config.concurrency
  scIndex,      \* mapWithConcurrency: let index
  scWorker,     \* mapWithConcurrency: where each worker is
  scResults,    \* mapWithConcurrency: const results
  scErrors,     \* runSetupScan: const errors
  scOut,        \* runSetupScan: the value returned
  scFetch,      \* how each candle fetch has ended so far
  scDetected,   \* what runDetectors returned for each symbol and timeframe
  detectorInput, \* runDetectors: its input
  detected,     \* runDetectors: whether it has returned, and its setups
  sizingInput,  \* calculatePositionSizing: its input
  sizing,       \* calculatePositionSizing: whether it has returned, and its result
  positionsInput, \* checkPositions: the rows fetched and the threshold
  liquidationCalls, \* checkPositions: its LIQUIDATION_RISK createAlert calls
  expStore,     \* the export routes' alert store: let loaded, let alerts
  expReq        \* the export request: where list() is, and the response

watchVars == <<wlFile, wlSet, nSets>>

scannerVars == <<cfg, running, lastRunAt, nextRunAt, timer, initialTimer,
                 latest, started, bootPc, runPc, runAt, lastOutcome, runWl,
                 watchVars>>

alertVars == <<alertFs, loaded, alerts, writeQueue, wqRejected, monRunning,
               nTicks, settled, proc, nextId, nApi, created, tornRead,
               readInWrite, lastSend>>

pureVars == <<detectorInput, detected, sizingInput, sizing, positionsInput,
              liquidationCalls>>

scanVars == <<scPc, scConc, scIndex, scWorker, scResults, scErrors, scOut,
              scFetch, scDetected, pureVars>>

exportVars == <<expStore, expReq>>

vars == <<now, scanFs, scannerVars, alertVars, scanVars, exportVars>>

\* ------------------------------------------------------------ file model
\* A file is absent, partially written, or completely written.
Absent(d0) == [exists |-> FALSE, complete |-> FALSE, data |-> d0]
Partial(d) == [exists |-> TRUE, complete |-> FALSE, data |-> d]
Complete(d) == [exists |-> TRUE, complete |-> TRUE, data |-> d]

\* writeJsonFile writes `${filePath}.${Date.now()}.tmp`, not filePath
TmpSlotInPlace == "main"
TmpSlot == "tmp"

\* fs.writeFile(tmp, JSON.stringify(data)) in progress
writeFileTmp(f, d) == [f EXCEPT ![TmpSlot] = Partial(d)]

\* fs.writeFile has completed; fs.rename(tmp, filePath)
renameTmp(f, d0) ==
  LET written == [f EXCEPT ![TmpSlot] = Complete(f[TmpSlot].data)]
  IN [main |-> written[TmpSlot], tmp |-> Absent(d0)]

\* readJsonFile / readLatestScan: fs.readFile + JSON.parse, null on any error
rawRead(f) == f.main
readJsonFile(f, d0) ==
  IF f.main.exists /\ f.main.complete THEN [ok |-> TRUE, data |-> f.main.data]
  ELSE [ok |-> FALSE, data |-> d0]

\* ------------------------------------------------------------- scanner
\* DEFAULT_WATCHLIST, cut down to two symbols
DEFAULT_WATCHLIST == <<"BTCUSDC", "XRPUSDC">>
\* the lists of valid symbols set() is given by the route
SetLists == {<<"ETHUSDC">>, <<"SOLUSDC", "BTCUSDC">>}

NullScan == [runAt |-> 0, hasTop |-> FALSE, watchlist |-> <<>>]

TimerCaller == 0
InitialCaller == 1
Callers == 0 .. (MaxManual + 1)
ManualCallers == Callers \ {TimerCaller, InitialCaller}

InFlight == {"fetching", "hung", "writing"}

\* the settled promise of runNow() as its caller sees it
Outcome(c, res) == [caller |-> c, res |-> res]

\* POST /scanner/run: 409 for "already running", 500 for other failures
HttpStatus(res) ==
  IF res = "rejected" THEN 409 ELSE IF res = "failed" THEN 500 ELSE 200

\* runNow: if (running) throw new Error("Scanner is already running.")
AlreadyRunningNever == FALSE
AlreadyRunning == running

\* what watchlistStore.get() returns for a file holding w
storedOrDefault(w) == IF Len(w) > 0 THEN w ELSE DEFAULT_WATCHLIST

\* what PUT /watchlist answers: the status code and the error message
Reply(status, message) == [status |-> status, message |-> message]
NoReply == Reply(0, "")

\* the PUT /watchlist request: where set() is, the body.symbols it was given,
\* the symbols set() writes, and the reply
Put(pc, body, symbols, reply) ==
  [pc |-> pc, body |-> body, symbols |-> symbols, reply |-> reply]
\* req.body: whether body.symbols is an array, and its entries
ArrayBody(symbols) == [isArray |-> TRUE, symbols |-> symbols]
NotArray == [isArray |-> FALSE, symbols |-> <<>>]
NoPut == Put("idle", NotArray, <<>>, NoReply)

\* a run's call of watchlistStore.get(): where it is, what it returned, and
\* (for the properties) what the store held when the run started
Get(pc, got, atStart) == [pc |-> pc, got |-> got, atStart |-> atStart]
NoGet == Get("none", <<>>, <<>>)

\* runNow: the const watchlist of caller c's run, used for
\* runSetupScan({ symbols: watchlist.symbols }) and for response.watchlist
watchlistNow(c) == storedOrDefault(wlFile)
watchlistOf(c) == runWl[c].got

\* computeNextRunAt(fromMs)
computeNextRunAtFromSchedule(fromMs) ==
  IF timer.due > 0 THEN timer.due + IntervalTicks ELSE fromMs + IntervalTicks
computeNextRunAt(fromMs) == fromMs + IntervalTicks

\* scheduleNext()
scheduleNext ==
  IF cfg.enabled
  THEN /\ nextRunAt' = computeNextRunAt(now)
       /\ timer' = [armed |-> TRUE, due |-> computeNextRunAt(now)]
  ELSE UNCHANGED <<nextRunAt, timer>>

\* the finally { scheduleNext() } of the schedule timer's callback; the
\* run-on-start callback and the HTTP route have no such step
AfterRun(c) ==
  IF c = TimerCaller THEN scheduleNext ELSE UNCHANGED <<nextRunAt, timer>>

\* the files are left by an earlier run of the program, at clock 1
InitShared ==
  /\ now = 2
  /\ scanFs \in { [main |-> m, tmp |-> Absent(NullScan)] :
                  m \in {Absent(NullScan),
                         Complete([runAt |-> 1, hasTop |-> TRUE,
                                   watchlist |-> DEFAULT_WATCHLIST])} }

InitScanner ==
  /\ cfg \in [enabled : BOOLEAN, runOnStart : BOOLEAN]
  /\ running = FALSE
  /\ lastRunAt = 0
  /\ nextRunAt = 0
  /\ timer = [armed |-> FALSE, due |-> 0]
  /\ initialTimer = "none"
  /\ latest = NullScan
  /\ started = FALSE
  /\ bootPc = "reading"
  /\ runPc = [c \in Callers |-> "idle"]
  /\ runAt = [c \in Callers |-> 0]
  /\ lastOutcome = [caller |-> 0, res |-> "none"]
  /\ wlFile \in {<<>>, DEFAULT_WATCHLIST}
  /\ wlSet = NoPut
  /\ nSets = 0
  /\ runWl = [c \in Callers |-> NoGet]

\* the clock advances
AdvanceTime ==
  /\ now < MaxTime
  /\ now' = now + 1
  /\ UNCHANGED <<scanFs, scannerVars, alertVars, scanVars, exportVars>>

\* constructor: void (async () => { existing = await readJsonFile(...) ... })()
BootLoaded ==
  /\ bootPc = "reading"
  /\ bootPc' = "done"
  /\ LET existing == readJsonFile(scanFs, NullScan)
     IN IF existing.ok
        THEN latest' = existing.data /\ lastRunAt' = existing.data.runAt
        ELSE UNCHANGED <<latest, lastRunAt>>
  /\ UNCHANGED <<now, scanFs, cfg, running, nextRunAt, timer, initialTimer,
                 started, runPc, runAt, lastOutcome, runWl, watchVars>>
  /\ UNCHANGED <<alertVars, scanVars, exportVars>>

\* start()
Start ==
  /\ ~started
  /\ cfg.enabled
  /\ started' = TRUE
  /\ scheduleNext
  /\ initialTimer' = IF cfg.runOnStart THEN "pending" ELSE initialTimer
  /\ UNCHANGED <<now, scanFs, cfg, running, lastRunAt, latest, bootPc,
                 runPc, runAt, lastOutcome, runWl, watchVars>>
  /\ UNCHANGED <<alertVars, scanVars, exportVars>>

\* stop()
Stop ==
  /\ started
  /\ started' = FALSE
  /\ timer' = [armed |-> FALSE, due |-> 0]
  /\ nextRunAt' = 0
  /\ UNCHANGED <<now, scanFs, cfg, running, lastRunAt, initialTimer, latest,
                 bootPc, runPc, runAt, lastOutcome, runWl, watchVars>>
  /\ UNCHANGED <<alertVars, scanVars, exportVars>>

\* runNow() up to its first await, called by c
runNowEnter(c) ==
  IF AlreadyRunning
  THEN /\ lastOutcome' = Outcome(c, "rejected")
       /\ AfterRun(c)
       /\ UNCHANGED <<running, runAt, runPc, runWl>>
  ELSE /\ running' = TRUE
       /\ runAt' = [runAt EXCEPT ![c] = now]
       /\ runPc' = [runPc EXCEPT ![c] = "fetching"]
       /\ runWl' = [runWl EXCEPT
                      ![c] = Get("reading", <<>>, storedOrDefault(wlFile))]
       /\ UNCHANGED <<nextRunAt, timer, lastOutcome>>

\* POST /scanner/run
ManualRun(c) ==
  /\ c \in ManualCallers
  /\ runPc[c] = "idle"
  /\ runNowEnter(c)
  /\ UNCHANGED <<now, scanFs, cfg, lastRunAt, initialTimer, latest, started,
                 bootPc, watchVars>>
  /\ UNCHANGED <<alertVars, scanVars, exportVars>>

\* the schedule timeout fires
TimerFire ==
  /\ timer.armed
  /\ now >= timer.due
  /\ runPc[TimerCaller] = "idle"
  /\ IF AlreadyRunning
     THEN /\ lastOutcome' = Outcome(TimerCaller, "rejected")
          /\ scheduleNext
          /\ UNCHANGED <<running, runAt, runPc, runWl>>
     ELSE /\ running' = TRUE
          /\ runAt' = [runAt EXCEPT ![TimerCaller] = now]
          /\ runPc' = [runPc EXCEPT ![TimerCaller] = "fetching"]
          /\ runWl' = [runWl EXCEPT
                         ![TimerCaller] =
                           Get("reading", <<>>, storedOrDefault(wlFile))]
          /\ timer' = [timer EXCEPT !.armed = FALSE]
          /\ UNCHANGED <<nextRunAt, lastOutcome>>
  /\ UNCHANGED <<now, scanFs, cfg, lastRunAt, initialTimer, latest, started,
                 bootPc, watchVars>>
  /\ UNCHANGED <<alertVars, scanVars, exportVars>>

\* the run-on-start timeout (1500 ms) fires
InitialFire ==
  /\ initialTimer = "pending"
  /\ runPc[InitialCaller] = "idle"
  /\ initialTimer' = "fired"
  /\ runNowEnter(InitialCaller)
  /\ UNCHANGED <<now, scanFs, cfg, lastRunAt, latest, started, bootPc,
                 watchVars>>
  /\ UNCHANGED <<alertVars, scanVars, exportVars>>

\* watchlistStore.get() of caller c's run: readJsonFile returns; the stored
\* list is returned, or the default list is built and its write begins
WatchlistRead(c) ==
  /\ runPc[c] = "fetching"
  /\ runWl[c].pc = "reading"
  /\ runWl' = [runWl EXCEPT
                 ![c] = Get(IF Len(wlFile) > 0 THEN "got" ELSE "writing",
                            storedOrDefault(wlFile), runWl[c].atStart)]
  /\ UNCHANGED <<now, scanFs, cfg, running, lastRunAt, nextRunAt, timer,
                 initialTimer, latest, started, bootPc, runPc, runAt,
                 lastOutcome, watchVars>>
  /\ UNCHANGED <<alertVars, scanVars, exportVars>>

\* watchlistStore.get(): the write of the default list completes (rename)
WatchlistDefaultWritten(c) ==
  /\ runPc[c] = "fetching"
  /\ runWl[c].pc = "writing"
  /\ wlFile' = runWl[c].got
  /\ runWl' = [runWl EXCEPT ![c].pc = "got"]
  /\ UNCHANGED <<now, scanFs, cfg, running, lastRunAt, nextRunAt, timer,
                 initialTimer, latest, started, bootPc, runPc, runAt,
                 lastOutcome, wlSet, nSets>>
  /\ UNCHANGED <<alertVars, scanVars, exportVars>>

\* PUT /watchlist with valid symbols: set() builds the list and its write
\* begins
WatchlistSet(symbols) ==
  /\ wlSet.pc = "idle"
  /\ nSets < MaxSets
  /\ nSets' = nSets + 1
  /\ wlSet' = Put("writing", ArrayBody(symbols), symbols, NoReply)
  /\ UNCHANGED <<now, scanFs, cfg, running, lastRunAt, nextRunAt, timer,
                 initialTimer, latest, started, bootPc, runPc, runAt,
                 lastOutcome, runWl, wlFile>>
  /\ UNCHANGED <<alertVars, scanVars, exportVars>>

\* set(): writeJsonFile completes (rename); the list is returned
WatchlistSetDone ==
  /\ wlSet.pc = "writing"
  /\ wlFile' = wlSet.symbols
  /\ wlSet' = Put("idle", wlSet.body, <<>>, Reply(200, "watchlist"))
  /\ UNCHANGED <<now, scanFs, cfg, running, lastRunAt, nextRunAt, timer,
                 initialTimer, latest, started, bootPc, runPc, runAt,
                 lastOutcome, runWl, nSets>>
  /\ UNCHANGED <<alertVars, scanVars, exportVars>>

\* ---- PUT /watchlist with any body: normalizeSymbol, uniq, set()
\* a symbol is the sequence of its characters; null is the empty sequence
NullSymbol == <<>>
Blank == " "
LowerCase == <<"b", "c", "d", "e", "h", "s", "t", "u">>
UpperCase == <<"B", "C", "D", "E", "H", "S", "T", "U">>
\* the characters of the class [A-Z0-9]
AlphaNum == {"A", "B", "C", "D", "E", "F", "G", "H", "I", "J", "K", "L", "M",
             "N", "O", "P", "Q", "R", "S", "T", "U", "V", "W", "X", "Y", "Z",
             "0", "1", "2", "3", "4", "5", "6", "7", "8", "9"}
MinSymbolLen == 5
MaxSymbolLen == 20
MaxWatchlistSymbols == 50

\* String.prototype.trim
RECURSIVE trimStart(_)
trimStart(raw) ==
  IF Len(raw) > 0 /\ Head(raw) = Blank THEN trimStart(Tail(raw)) ELSE raw
RECURSIVE trimEnd(_)
trimEnd(raw) ==
  IF Len(raw) > 0 /\ raw[Len(raw)] = Blank
  THEN trimEnd(SubSeq(raw, 1, Len(raw) - 1))
  ELSE raw
trim(raw) == trimEnd(trimStart(raw))

\* String.prototype.toUpperCase
upperOf(ch) ==
  IF \E i \in DOMAIN LowerCase : LowerCase[i] = ch
  THEN UpperCase[CHOOSE i \in DOMAIN LowerCase : LowerCase[i] = ch]
  ELSE ch
toUpperCase(raw) == [i \in DOMAIN raw |-> upperOf(raw[i])]

\* normalizeSymbol(raw)
normalizeSymbol(raw) ==
  LET symbol == toUpperCase(trim(raw))
  IN IF Len(symbol) = 0 THEN NullSymbol
     ELSE IF ~ /\ Len(symbol) >= MinSymbolLen
               /\ Len(symbol) <= MaxSymbolLen
               /\ \A i \in DOMAIN symbol : symbol[i] \in AlphaNum
          THEN NullSymbol
          ELSE symbol

\* uniq(values): Array.from(new Set(values)), first occurrences in order
RECURSIVE uniqFrom(_, _)
uniqFrom(kept, values) ==
  IF Len(values) = 0 THEN kept
  ELSE uniqFrom(IF \E i \in DOMAIN kept : kept[i] = Head(values)
                THEN kept ELSE Append(kept, Head(values)),
                Tail(values))
uniq(values) == uniqFrom(<<>>, values)

\* symbolsRaw.map(normalizeSymbol).filter(Boolean)
RECURSIVE normalizedOf(_)
normalizedOf(symbolsRaw) ==
  IF Len(symbolsRaw) = 0 THEN <<>>
  ELSE LET symbol == normalizeSymbol(Head(symbolsRaw))
       IN IF symbol = NullSymbol THEN normalizedOf(Tail(symbolsRaw))
          ELSE <<symbol>> \o normalizedOf(Tail(symbolsRaw))


\* the raw entries a client sends
Btc == <<"B", "T", "C", "U", "S", "D", "C">>
RawEntries ==
  { Btc,
    <<" ", "e", "t", "h", "u", "s", "d", "c", " ">>,
    <<"b", "t", "c", "u", "s", "d", "c">>,
    <<"B", "T", "C">>,
    <<"B", "T", "C", "-", "U", "S", "D">>,
    <<"B", "T", "C", " ", "U", "S", "D">>,
    <<" ", " ">>,
    <<>> }
MaxBody == 2
Bodies ==
  {NotArray} \cup
  UNION { {ArrayBody(e) : e \in [1 .. n -> RawEntries]} : n \in 0 .. MaxBody }

\* PUT /watchlist: the route's check of body.symbols and set() up to its
\* await of writeJsonFile
PutWatchlist(body) ==
  /\ wlSet.pc = "idle"
  /\ nSets < MaxSets
  /\ nSets' = nSets + 1
  /\ IF ~body.isArray
     THEN wlSet' = Put("idle", body, <<>>,
                       Reply(400, "Body.symbols must be an array of symbols."))
     ELSE LET symbols == uniq(normalizedOf(body.symbols))
          IN IF Len(symbols) = 0
             THEN wlSet' = Put("idle", body, <<>>,
                       Reply(400, "Watchlist must contain at least one valid symbol."))
             ELSE IF Len(symbols) > MaxWatchlistSymbols
             THEN wlSet' = Put("idle", body, <<>>,
                       Reply(400, "Watchlist is too large (max 50 symbols)."))
             ELSE wlSet' = Put("writing", body, symbols, NoReply)
  /\ UNCHANGED <<now, scanFs, cfg, running, lastRunAt, nextRunAt, timer,
                 initialTimer, latest, started, bootPc, runPc, runAt,
                 lastOutcome, runWl, wlFile>>
  /\ UNCHANGED <<alertVars, scanVars, exportVars>>

\* set(): writeJsonFile throws; the route answers 400 with the error's message
WatchlistSetFail ==
  /\ wlSet.pc = "writing"
  /\ wlSet' = Put("idle", wlSet.body, <<>>, Reply(400, "write failed"))
  /\ UNCHANGED <<now, scanFs, cfg, running, lastRunAt, nextRunAt, timer,
                 initialTimer, latest, started, bootPc, runPc, runAt,
                 lastOutcome, runWl, wlFile, nSets>>
  /\ UNCHANGED <<alertVars, scanVars, exportVars>>

NextPut ==
  \/ \E body \in Bodies : PutWatchlist(body)
  \/ WatchlistSetDone
  \/ WatchlistSetFail

\* equity, runSetupScan and the summaries have returned: the response is
\* built, latest and lastRunAt are assigned, the write begins
FetchDone(c) ==
  /\ runPc[c] = "fetching"
  /\ runWl[c].pc = "got"
  /\ \E top \in BOOLEAN :
       LET response == [runAt |-> runAt[c], hasTop |-> top,
                        watchlist |-> watchlistOf(c)]
       IN /\ latest' = response
          /\ lastRunAt' = runAt[c]
          /\ scanFs' = writeFileTmp(scanFs, response)
  /\ runPc' = [runPc EXCEPT ![c] = "writing"]
  /\ UNCHANGED <<now, cfg, running, nextRunAt, timer, initialTimer, started,
                 bootPc, runAt, lastOutcome, runWl, watchVars>>
  /\ UNCHANGED <<alertVars, scanVars, exportVars>>

\* an external call of the run (fetch(url) without a timeout) never responds
FetchHang(c) ==
  /\ runPc[c] = "fetching"
  /\ runWl[c].pc = "got"
  /\ runPc' = [runPc EXCEPT ![c] = "hung"]
  /\ UNCHANGED <<now, scanFs, cfg, running, lastRunAt, nextRunAt, timer,
                 initialTimer, latest, started, bootPc, runAt, lastOutcome,
                 runWl, watchVars>>
  /\ UNCHANGED <<alertVars, scanVars, exportVars>>

\* a step before the write throws (watchlistStore.get): finally, rethrow
RunFail(c) ==
  /\ runPc[c] = "fetching"
  /\ running' = FALSE
  /\ runPc' = [runPc EXCEPT ![c] = "idle"]
  /\ runAt' = [runAt EXCEPT ![c] = 0]
  /\ lastOutcome' = Outcome(c, "failed")
  /\ runWl' = [runWl EXCEPT ![c] = NoGet]
  /\ AfterRun(c)
  /\ UNCHANGED <<now, scanFs, cfg, lastRunAt, initialTimer, latest, started,
                 bootPc, watchVars>>
  /\ UNCHANGED <<alertVars, scanVars, exportVars>>

\* writeJsonFile completes (rename); return response; finally
WriteDone(c) ==
  /\ runPc[c] = "writing"
  /\ scanFs' = renameTmp(scanFs, NullScan)
  /\ running' = FALSE
  /\ runPc' = [runPc EXCEPT ![c] = "idle"]
  /\ runAt' = [runAt EXCEPT ![c] = 0]
  /\ lastOutcome' = Outcome(c, "ok")
  /\ runWl' = [runWl EXCEPT ![c] = NoGet]
  /\ AfterRun(c)
  /\ UNCHANGED <<now, cfg, lastRunAt, initialTimer, latest, started, bootPc,
                 watchVars>>
  /\ UNCHANGED <<alertVars, scanVars, exportVars>>

\* writeJsonFile throws; finally
WriteFail(c) ==
  /\ runPc[c] = "writing"
  /\ running' = FALSE
  /\ runPc' = [runPc EXCEPT ![c] = "idle"]
  /\ runAt' = [runAt EXCEPT ![c] = 0]
  /\ lastOutcome' = Outcome(c, "failed")
  /\ runWl' = [runWl EXCEPT ![c] = NoGet]
  /\ AfterRun(c)
  /\ UNCHANGED <<now, scanFs, cfg, lastRunAt, initialTimer, latest, started,
                 bootPc, watchVars>>
  /\ UNCHANGED <<alertVars, scanVars, exportVars>>

NextScanner ==
  \/ AdvanceTime
  \/ BootLoaded
  \/ Start
  \/ Stop
  \/ TimerFire
  \/ InitialFire
  \/ \E c \in ManualCallers : ManualRun(c)
  \/ \E c \in Callers : WatchlistRead(c)
  \/ \E c \in Callers : FetchDone(c)
  \/ \E c \in Callers : RunFail(c)
  \/ \E c \in Callers : WriteDone(c)
  \/ \E c \in Callers : WriteFail(c)

\* the same, with external calls that may never respond
NextScannerHang ==
  \/ NextScanner
  \/ \E c \in Callers : FetchHang(c)

\* ------------------------------------------------------------ alert store
\* bounds of the alert model
MaxTicks == 2
MaxStoreTicks == 1
MaxApi == 1
\* config.maxAlerts, scaled down
MaxAlertsCap == 3
\* config.dedupeWindowMs, in clock units
DedupeWindow == 1

TickIds == 1 .. MaxTicks
ApiProc == <<0, "api">>
ScanPass(i) == <<i, "scan">>
PosPass(i) == <<i, "pos">>
Procs == (TickIds \X {"scan", "pos"}) \cup {ApiProc}

\* a pass or request: where it is, the rule (or request) it is at, and its
\* locals (ref: runAt of the snapshot read, or the alert id; top: the
\* snapshot has setups)
At(pc, rule, ref, top) == [pc |-> pc, rule |-> rule, ref |-> ref, top |-> top]
Idle == At("idle", "-", 0, FALSE)
Done == At("done", "-", 0, FALSE)
Failed == At("failed", "-", 0, FALSE)
Active == {"io", "load", "persist", "notify"}

Key(type, ref) == [type |-> type, ref |-> ref]
PreAlert == [id |-> 1, key |-> Key("LIQ", 0), createdAt |-> 1, ack |-> 0]

\* a write of f is under way: the file being written is incomplete
WriteUnderWay(f) == f[TmpSlot].exists /\ ~f[TmpSlot].complete

\* store.findRecentByDedupeKey, after ensureLoaded
findRecentByDedupeKey(A, key, sinceMs) ==
  LET since == now - (IF sinceMs > 0 THEN sinceMs ELSE 0)
  IN \E k \in 1 .. Len(A) : A[k].key = key /\ A[k].createdAt >= since

\* store.add: alerts.unshift(alert); slice(0, maxAlerts)
add(A, a) ==
  LET B == <<a>> \o A
  IN IF Len(B) > MaxAlertsCap THEN SubSeq(B, 1, MaxAlertsCap) ELSE B

\* store.acknowledge: alerts[idx] = { ...existing, acknowledgedAt: nowIso() }
acknowledge(A, id) ==
  [k \in 1 .. Len(A) |->
     IF A[k].id = id /\ A[k].ack = 0 THEN [A[k] EXCEPT !.ack = now] ELSE A[k]]

\* ensureLoaded: alerts = Array.isArray(existing) ? existing : []
loadedAlerts(f) ==
  LET existing == readJsonFile(f, <<>>)
  IN IF existing.ok THEN existing.data ELSE <<>>

\* ---------------------------------------------------------- alerts monitor
\* tick: await Promise.all([checkScanner(), checkPositions()])
PassesLaunchedInTurn == {"scan"}
PassesLaunched == {"scan", "pos"}

\* Promise.all settles on the first rejection or when both passes are done
TickEnds(pr, i) ==
  \/ pr[ScanPass(i)].pc = "failed"
  \/ pr[PosPass(i)].pc = "failed"
  \/ (pr[ScanPass(i)].pc = "done" /\ pr[PosPass(i)].pc = "done")

\* tick: finally { running = false }
FinallyClearsRunningNever == FALSE
FinallyClearsRunning == TRUE

\* new positions of the passes; catch and finally { running = false } of
\* every tick whose Promise.all settles by this
Settle(pr) ==
  /\ proc' = pr
  /\ settled' = [i \in TickIds |-> settled[i] \/ TickEnds(pr, i)]
  /\ monRunning' = IF /\ FinallyClearsRunning
                      /\ \E i \in TickIds : ~settled[i] /\ TickEnds(pr, i)
                   THEN FALSE ELSE monRunning

\* the same, by a step that logs no failed send
Commit(pr) == Settle(pr) /\ UNCHANGED lastSend

tickVars == <<proc, settled, monRunning, lastSend>>
storeVars == <<loaded, alerts, writeQueue, nextId, created>>

\* where a pass (or the request) at st goes on after createAlert (or
\* acknowledge) has returned
AfterRule(st) ==
  CASE st.rule = "TOP" ->
         IF st.top THEN At("io", "ENTRY", st.ref, st.top) ELSE Done
    [] st.rule = "LIQ" -> At("io", "STOP", 0, FALSE)
    [] st.rule = "ACK" -> Idle
    [] OTHER -> Done

\* createAlert by p (at st) once the store is loaded with A:
\* findRecentByDedupeKey, then store.add up to the await in persist()
createAlert(p, st, A) ==
  LET key == Key(st.rule, st.ref)
      dup == findRecentByDedupeKey(A, key, DedupeWindow)
      a == [id |-> nextId, key |-> key, createdAt |-> now, ack |-> 0]
      A2 == add(A, a)
  IN /\ loaded' = TRUE
     /\ IF dup
        THEN /\ alerts' = A
             /\ Commit([proc EXCEPT ![p] = AfterRule(st)])
             /\ UNCHANGED <<writeQueue, nextId, created>>
        ELSE /\ alerts' = A2
             /\ nextId' = nextId + 1
             /\ created' = created \cup {[id |-> a.id, key |-> key, at |-> now]}
             /\ IF wqRejected
                THEN /\ Commit([proc EXCEPT ![p] = Failed])
                     /\ UNCHANGED writeQueue
                ELSE /\ writeQueue' =
                          Append(writeQueue, [owner |-> p, snap |-> A2])
                     /\ Commit([proc EXCEPT ![p] = [st EXCEPT !.pc = "persist"]])

\* createAlert called by pass p, which is at st meanwhile: ensureLoaded
\* returns at once when loaded, otherwise it awaits the read of alerts.json
Invoke(p, st) ==
  IF loaded
  THEN createAlert(p, st, alerts)
  ELSE /\ Commit([proc EXCEPT ![p] = [st EXCEPT !.pc = "load"]])
       /\ UNCHANGED storeVars

InitAlerts ==
  /\ alertFs \in { [main |-> m, tmp |-> Absent(<<>>)] :
                   m \in {Absent(<<>>), Complete(<<PreAlert>>)} }
  /\ loaded = FALSE
  /\ alerts = <<>>
  /\ writeQueue = <<>>
  /\ wqRejected = FALSE
  /\ monRunning = FALSE
  /\ nTicks = 0
  /\ settled = [i \in TickIds |-> FALSE]
  /\ proc = [p \in Procs |-> Idle]
  /\ nextId = 2
  /\ nApi = 0
  /\ created = IF alertFs.main.exists
               THEN {[id |-> 1, key |-> PreAlert.key, at |-> 1]} ELSE {}
  /\ tornRead = FALSE
  /\ readInWrite = {}
  /\ lastSend = [proc |-> ApiProc, rule |-> "-"]

\* setInterval fires (or start() calls tick()): if (running) return;
\* at most limit ticks get past the guard
tick(limit) ==
  /\ nTicks < limit
  /\ ~monRunning
  /\ nTicks' = nTicks + 1
  /\ monRunning' = TRUE
  /\ proc' = [p \in Procs |->
                IF p = ScanPass(nTicks + 1) /\ "scan" \in PassesLaunched
                THEN At("io", "TOP", 0, FALSE)
                ELSE IF p = PosPass(nTicks + 1) /\ "pos" \in PassesLaunched
                THEN At("io", "LIQ", 0, FALSE)
                ELSE proc[p]]
  /\ UNCHANGED <<now, scanFs, alertFs, storeVars, wqRejected, settled, nApi,
                 tornRead, readInWrite, lastSend>>
  /\ UNCHANGED <<scannerVars, scanVars, exportVars>>

\* checkScanner: readLatestScan() returns; the NEW_TOP_SETUPS rule
ReadLatestScan(i) ==
  /\ proc[ScanPass(i)].pc = "io"
  /\ proc[ScanPass(i)].rule = "TOP"
  /\ tornRead' = (tornRead \/ (rawRead(scanFs).exists /\ ~rawRead(scanFs).complete))
  /\ readInWrite' = IF WriteUnderWay(scanFs)
                    THEN readInWrite \cup {"scan"} ELSE readInWrite
  /\ LET latestScan == readJsonFile(scanFs, NullScan)
     IN IF latestScan.ok
        THEN Invoke(ScanPass(i), At("io", "TOP", latestScan.data.runAt,
                                    latestScan.data.hasTop))
        ELSE Commit([proc EXCEPT ![ScanPass(i)] = Done]) /\ UNCHANGED storeVars
  /\ UNCHANGED <<now, scanFs, alertFs, wqRejected, nTicks, nApi>>
  /\ UNCHANGED <<scannerVars, scanVars, exportVars>>

\* checkScanner: the price fetches return; the ENTRY_ZONE_HIT rule
\* (a failed price fetch gives a null price: the setup is skipped)
PriceResp(i, inZone) ==
  /\ proc[ScanPass(i)].pc = "io"
  /\ proc[ScanPass(i)].rule = "ENTRY"
  /\ IF inZone
     THEN Invoke(ScanPass(i), proc[ScanPass(i)])
     ELSE Commit([proc EXCEPT ![ScanPass(i)] = Done]) /\ UNCHANGED storeVars
  /\ UNCHANGED <<now, scanFs, alertFs, wqRejected, nTicks, nApi,
                 tornRead, readInWrite>>
  /\ UNCHANGED <<scannerVars, scanVars, exportVars>>

\* checkPositions: fetchFuturesPositionRisk returns or throws; the
\* LIQUIDATION_RISK rule
PositionsResp(i, res) ==
  /\ proc[PosPass(i)].pc = "io"
  /\ proc[PosPass(i)].rule = "LIQ"
  /\ CASE res = "fail" ->
            Commit([proc EXCEPT ![PosPass(i)] = Failed]) /\ UNCHANGED storeVars
       [] res = "none" ->
            Commit([proc EXCEPT ![PosPass(i)] = Done]) /\ UNCHANGED storeVars
       [] res = "safe" ->
            /\ Commit([proc EXCEPT ![PosPass(i)] = At("io", "STOP", 0, FALSE)])
            /\ UNCHANGED storeVars
       [] OTHER -> Invoke(PosPass(i), proc[PosPass(i)])
  /\ UNCHANGED <<now, scanFs, alertFs, wqRejected, nTicks, nApi,
                 tornRead, readInWrite>>
  /\ UNCHANGED <<scannerVars, scanVars, exportVars>>

\* checkPositions: fetchFuturesOpenOrders returns (or throws: warn and
\* continue); the STOP_PROXIMITY rule
OrdersResp(i, stopNear) ==
  /\ proc[PosPass(i)].pc = "io"
  /\ proc[PosPass(i)].rule = "STOP"
  /\ IF stopNear
     THEN Invoke(PosPass(i), proc[PosPass(i)])
     ELSE Commit([proc EXCEPT ![PosPass(i)] = Done]) /\ UNCHANGED storeVars
  /\ UNCHANGED <<now, scanFs, alertFs, wqRejected, nTicks, nApi,
                 tornRead, readInWrite>>
  /\ UNCHANGED <<scannerVars, scanVars, exportVars>>

\* checkScanner: fetchFuturesPrice throws; the catch gives a null price
\* and the setup is skipped
PriceFail(i) == PriceResp(i, FALSE)

\* checkPositions: fetchFuturesOpenOrders throws; the catch warns and the
\* loop continues with the next position
OrdersFail(i) == OrdersResp(i, FALSE)

\* ensureLoaded of a pass: the read of alerts.json returns; alerts is
\* assigned, loaded is set, and createAlert goes on
PassLoadDone(p) ==
  /\ p # ApiProc
  /\ proc[p].pc = "load"
  /\ tornRead' = (tornRead \/ (rawRead(alertFs).exists /\ ~rawRead(alertFs).complete))
  /\ readInWrite' = IF WriteUnderWay(alertFs)
                    THEN readInWrite \cup {"alerts"} ELSE readInWrite
  /\ createAlert(p, proc[p], loadedAlerts(alertFs))
  /\ UNCHANGED <<now, scanFs, alertFs, wqRejected, nTicks, nApi>>
  /\ UNCHANGED <<scannerVars, scanVars, exportVars>>

\* persist: the head of writeQueue starts writeJsonFile
AlertWriteBegin ==
  /\ writeQueue # <<>>
  /\ ~WriteUnderWay(alertFs)
  /\ alertFs' = writeFileTmp(alertFs, Head(writeQueue).snap)
  /\ UNCHANGED <<now, scanFs, storeVars, tickVars, wqRejected, nTicks, nApi, tornRead, readInWrite>>
  /\ UNCHANGED <<scannerVars, scanVars, exportVars>>

\* persist: writeJsonFile completes (rename); the awaiting caller goes on:
\* acknowledge returns, add returns and createAlert calls maybeSendTelegram
AlertWriteDone ==
  /\ writeQueue # <<>>
  /\ WriteUnderWay(alertFs)
  /\ alertFs' = renameTmp(alertFs, <<>>)
  /\ writeQueue' = Tail(writeQueue)
  /\ LET o == Head(writeQueue).owner
     IN Commit([proc EXCEPT ![o] = IF o = ApiProc THEN AfterRule(proc[o])
                                   ELSE [proc[o] EXCEPT !.pc = "notify"]])
  /\ UNCHANGED <<now, scanFs, loaded, alerts, nextId, created, wqRejected,
                 nTicks, nApi, tornRead, readInWrite>>
  /\ UNCHANGED <<scannerVars, scanVars, exportVars>>

\* createAlert: the try { await maybeSendTelegram(...) } catch around the send
CatchesSendFailureNever == FALSE
CatchesSendFailure == TRUE

\* createAlert: sendTelegramMessage returns or throws (catch: warn); the
\* alert is returned and the pass goes on
TelegramResp(p, ok) ==
  /\ p # ApiProc
  /\ proc[p].pc = "notify"
  /\ lastSend' = IF ok THEN lastSend ELSE [proc |-> p, rule |-> proc[p].rule]
  /\ IF ~ok /\ ~CatchesSendFailure
     THEN Settle([proc EXCEPT ![p] = Failed])
     ELSE Settle([proc EXCEPT ![p] = AfterRule(proc[p])])
  /\ UNCHANGED <<now, scanFs, alertFs, storeVars, wqRejected, nTicks, nApi,
                 tornRead, readInWrite>>
  /\ UNCHANGED <<scannerVars, scanVars, exportVars>>

\* persist: writeJsonFile throws; writeQueue stays rejected, and every
\* caller chained on it is rejected as well
AlertWriteFail ==
  /\ writeQueue # <<>>
  /\ wqRejected' = TRUE
  /\ writeQueue' = <<>>
  /\ LET owners == {writeQueue[k].owner : k \in 1 .. Len(writeQueue)}
     IN Commit([p \in Procs |->
                  IF p \in owners
                  THEN (IF p = ApiProc THEN Idle ELSE Failed)
                  ELSE proc[p]])
  /\ UNCHANGED <<now, scanFs, alertFs, loaded, alerts, nextId, created, nTicks,
                 nApi, tornRead, readInWrite>>
  /\ UNCHANGED <<scannerVars, scanVars, exportVars>>

\* store.acknowledge(id) once the store is loaded with A
ackLoaded(A, id) ==
  LET hit == \E k \in 1 .. Len(A) : A[k].id = id /\ A[k].ack = 0
      A2 == acknowledge(A, id)
  IN /\ loaded' = TRUE
     /\ alerts' = A2
     /\ UNCHANGED <<nextId, created>>
     /\ IF hit /\ ~wqRejected
        THEN /\ writeQueue' =
                  Append(writeQueue, [owner |-> ApiProc, snap |-> A2])
             /\ Commit([proc EXCEPT ![ApiProc] = At("persist", "ACK", id, FALSE)])
        ELSE /\ Commit([proc EXCEPT ![ApiProc] = Idle])
             /\ UNCHANGED writeQueue

\* the ids add() can give out: a pass creates two alerts at most
AlertIds == 1 .. (1 + 4 * MaxTicks)

KnownIds ==
  {alerts[k].id : k \in 1 .. Len(alerts)}
    \cup {alertFs.main.data[k].id : k \in 1 .. Len(alertFs.main.data)}

\* GET /alerts before the store is loaded (afterwards list() is a pure read)
ApiList ==
  /\ proc[ApiProc] = Idle
  /\ nApi < MaxApi
  /\ ~loaded
  /\ nApi' = nApi + 1
  /\ Commit([proc EXCEPT ![ApiProc] = At("load", "LIST", 0, FALSE)])
  /\ UNCHANGED <<now, scanFs, alertFs, storeVars, wqRejected, nTicks,
                 tornRead, readInWrite>>
  /\ UNCHANGED <<scannerVars, scanVars, exportVars>>

\* POST /alerts/:id/ack
ApiAck(id) ==
  /\ proc[ApiProc] = Idle
  /\ nApi < MaxApi
  /\ id \in KnownIds
  /\ nApi' = nApi + 1
  /\ IF loaded
     THEN ackLoaded(alerts, id)
     ELSE /\ Commit([proc EXCEPT ![ApiProc] = At("load", "ACK", id, FALSE)])
          /\ UNCHANGED storeVars
  /\ UNCHANGED <<now, scanFs, alertFs, wqRejected, nTicks, tornRead,
                 readInWrite>>
  /\ UNCHANGED <<scannerVars, scanVars, exportVars>>

\* ensureLoaded of the API request: the read of alerts.json returns
ApiLoadDone ==
  /\ proc[ApiProc].pc = "load"
  /\ tornRead' = (tornRead \/ (rawRead(alertFs).exists /\ ~rawRead(alertFs).complete))
  /\ readInWrite' = IF WriteUnderWay(alertFs)
                    THEN readInWrite \cup {"alerts"} ELSE readInWrite
  /\ IF proc[ApiProc].rule = "LIST"
     THEN /\ loaded' = TRUE
          /\ alerts' = loadedAlerts(alertFs)
          /\ Commit([proc EXCEPT ![ApiProc] = Idle])
          /\ UNCHANGED <<writeQueue, nextId, created>>
     ELSE ackLoaded(loadedAlerts(alertFs), proc[ApiProc].ref)
  /\ UNCHANGED <<now, scanFs, alertFs, wqRejected, nTicks, nApi>>
  /\ UNCHANGED <<scannerVars, scanVars, exportVars>>

\* the orchestrator's runNow reaches writeJsonFile(latestFilePath, response);
\* runAt tells the runs apart, so a clock unit holds one run at most
OrchWriteBegin ==
  /\ ~WriteUnderWay(scanFs)
  /\ scanFs.main.exists => now > scanFs.main.data.runAt
  /\ \E top \in BOOLEAN :
       scanFs' = writeFileTmp(scanFs, [runAt |-> now, hasTop |-> top,
                                       watchlist |-> DEFAULT_WATCHLIST])
  /\ UNCHANGED <<now, alertFs, storeVars, tickVars, wqRejected, nTicks, nApi,
                 tornRead, readInWrite>>
  /\ UNCHANGED <<scannerVars, scanVars, exportVars>>

\* the orchestrator's writeJsonFile completes (rename)
OrchWriteDone ==
  /\ WriteUnderWay(scanFs)
  /\ scanFs' = renameTmp(scanFs, NullScan)
  /\ UNCHANGED <<now, alertVars, scannerVars, scanVars, exportVars>>

\* the steps of the rule passes and of the store's persistence
PassStep ==
  \/ \E i \in TickIds : ReadLatestScan(i)
  \/ \E i \in TickIds, z \in BOOLEAN : PriceResp(i, z)
  \/ \E i \in TickIds, r \in {"fail", "none", "safe", "risk"} :
       PositionsResp(i, r)
  \/ \E i \in TickIds, sn \in BOOLEAN : OrdersResp(i, sn)
  \/ \E p \in Procs : PassLoadDone(p)
  \/ AlertWriteBegin
  \/ AlertWriteDone
  \/ \E p \in Procs : TelegramResp(p, TRUE)
  \/ AlertWriteFail

\* the monitor on its own: ticks over time
NextAlerts ==
  \/ AdvanceTime
  \/ tick(MaxTicks)
  \/ PassStep

\* one tick, and the snapshot file being replaced by the orchestrator
\* meanwhile
NextTick ==
  \/ tick(MaxStoreTicks)
  \/ PassStep
  \/ OrchWriteBegin
  \/ OrchWriteDone

\* one tick, with Telegram sends that may fail
NextPass ==
  \/ tick(MaxStoreTicks)
  \/ PassStep
  \/ \E p \in Procs : TelegramResp(p, FALSE)

\* ticks one after the other while the exchange is out of reach: the
\* position fetch fails, or it answers and the open-orders fetch fails;
\* the price fetch fails; the snapshot and the store are local files
NextOutage ==
  \/ tick(MaxTicks)
  \/ \E i \in TickIds : ReadLatestScan(i)
  \/ \E i \in TickIds : PriceFail(i)
  \/ \E i \in TickIds, r \in {"fail", "safe"} : PositionsResp(i, r)
  \/ \E i \in TickIds : OrdersFail(i)
  \/ \E p \in Procs : PassLoadDone(p)
  \/ AlertWriteBegin
  \/ AlertWriteDone
  \/ \E p \in Procs : TelegramResp(p, TRUE)
  \/ AlertWriteFail

\* the same, with the store shared by the monitor and the HTTP API
NextStore ==
  \/ NextTick
  \/ ApiList
  \/ \E id \in AlertIds : ApiAck(id)
  \/ ApiLoadDone

\* ticks over time whose only rule is NEW_TOP_SETUPS (no price in the entry
\* zone, no open position or a failing position fetch), with
\* acknowledgements through the API
NextDedupe ==
  \/ AdvanceTime
  \/ tick(MaxTicks)
  \/ \E i \in TickIds : ReadLatestScan(i)
  \/ \E i \in TickIds : PriceFail(i)
  \/ \E i \in TickIds, r \in {"fail", "none"} : PositionsResp(i, r)
  \/ \E p \in Procs : PassLoadDone(p)
  \/ AlertWriteBegin
  \/ AlertWriteDone
  \/ \E p \in Procs : TelegramResp(p, TRUE)
  \/ \E id \in AlertIds : ApiAck(id)
  \/ ApiLoadDone

\* ------------------------------------------------------- export routes
\* the number of export requests made
MaxExports == 2
\* store.list({ limit: 50_000, includeAcknowledged: true })
ExportLimit == 50000

\* exportRoutes: const store = createAlertStore(), a store of its own on
\* the same alerts.json
ExportStore(isLoaded, A) == [loaded |-> isLoaded, alerts |-> A]

\* the export request: where it is, the format asked for, the number of
\* requests made and served, and the body of the last response
Export(pc, format, made, served, body) ==
  [pc |-> pc, format |-> format, made |-> made, served |-> served,
   body |-> body]

\* list(params): the filter on acknowledgedAt and the slice to the limit
RECURSIVE unacknowledged(_)
unacknowledged(A) ==
  IF A = <<>> THEN <<>>
  ELSE IF Head(A).ack = 0 THEN <<Head(A)>> \o unacknowledged(Tail(A))
  ELSE unacknowledged(Tail(A))
list(A, limitParam, includeAcknowledged) ==
  LET capped == IF limitParam < MaxAlertsCap THEN limitParam ELSE MaxAlertsCap
      limit == IF capped > 1 THEN capped ELSE 1
      filtered == IF includeAcknowledged THEN A ELSE unacknowledged(A)
  IN SubSeq(filtered, 1, IF Len(filtered) < limit THEN Len(filtered) ELSE limit)

\* a field of alerts.csv: the empty text for null (value ?? "")
csvField(value) == [empty |-> value = 0, text |-> value]
\* one line of alerts.csv
csvLine(a) ==
  [id |-> a.id, createdAt |-> a.createdAt,
   acknowledgedAt |-> csvField(a.ack), dedupeKey |-> a.key]
\* the body of the response: { fetchedAt, alerts } or the CSV lines
exportBody(format, A) ==
  IF format = "csv" THEN [k \in 1 .. Len(A) |-> csvLine(A[k])] ELSE A

InitExport ==
  /\ expStore = ExportStore(FALSE, <<>>)
  /\ expReq = Export("idle", "-", 0, 0, <<>>)

\* GET /export/alerts.json or /export/alerts.csv: store.list() returns at
\* once when the routes' store is loaded, otherwise it awaits the read of
\* alerts.json
ExportGet(format) ==
  /\ expReq.pc = "idle"
  /\ expReq.made < MaxExports
  /\ IF expStore.loaded
     THEN expReq' = Export("idle", format, expReq.made + 1, expReq.served + 1,
                           exportBody(format,
                                      list(expStore.alerts, ExportLimit, TRUE)))
     ELSE expReq' = Export("load", format, expReq.made + 1, expReq.served,
                           expReq.body)
  /\ UNCHANGED expStore
  /\ UNCHANGED <<now, scanFs, scannerVars, alertVars, scanVars>>

\* ensureLoaded of the export routes' store: the read of alerts.json returns;
\* list() returns and the response is sent
ExportLoadDone ==
  /\ expReq.pc = "load"
  /\ LET A == loadedAlerts(alertFs)
     IN /\ expStore' = ExportStore(TRUE, A)
        /\ expReq' = Export("idle", expReq.format, expReq.made,
                            expReq.served + 1,
                            exportBody(expReq.format, list(A, ExportLimit, TRUE)))
  /\ UNCHANGED <<now, scanFs, scannerVars, alertVars, scanVars>>

\* one tick of the monitor, acknowledgements through the API, and export
\* requests
NextExport ==
  \/ tick(MaxStoreTicks)
  \/ \E i \in TickIds, r \in {"none", "risk"} : PositionsResp(i, r)
  \/ \E i \in TickIds : OrdersResp(i, FALSE)
  \/ \E i \in TickIds : ReadLatestScan(i)
  \/ \E i \in TickIds : PriceResp(i, FALSE)
  \/ \E p \in Procs : PassLoadDone(p)
  \/ AlertWriteBegin
  \/ AlertWriteDone
  \/ \E p \in Procs : TelegramResp(p, TRUE)
  \/ \E id \in AlertIds : ApiAck(id)
  \/ ApiLoadDone
  \/ \E format \in {"json", "csv"} : ExportGet(format)
  \/ ExportLoadDone

\* ------------------------------------------------------------ runSetupScan
\* bounds of the scan model
MaxSymbols == 2
MaxConcurrency == 2

\* params.symbols, by position
Symbols == 1 .. MaxSymbols
\* config.trendTimeframe
TrendTimeframe == "4h"
\* config.timeframes
Timeframes == <<"15m", "1h">>
Fetches ==
  Symbols \X ({TrendTimeframe} \cup {Timeframes[t] : t \in 1 .. Len(Timeframes)})

Candidate(sym, tf, score, finite) ==
  [symbol |-> sym, timeframe |-> tf, score |-> score, finite |-> finite]

\* what runDetectors may return for one symbol and timeframe; finite stands
\* for score, entry, stopLoss and takeProfit all being finite numbers
Detections(sym, tf) ==
  { <<>>,
    <<Candidate(sym, tf, 1, TRUE)>>,
    <<Candidate(sym, tf, 2, TRUE)>>,
    <<Candidate(sym, tf, 2, FALSE)>>,
    <<Candidate(sym, tf, 1, TRUE), Candidate(sym, tf, 2, FALSE)>> }

SymbolError(sym, message) == [symbol |-> sym, message |-> message]

\* a worker of mapWithConcurrency: the item it is at (0: none left), the
\* fetch it awaits (0: the 4h trend, t: Timeframes[t]) and its setups so far
WorkerAt(sym, stage, setups) == [sym |-> sym, stage |-> stage, setups |-> setups]
WorkerDone == WorkerAt(0, 0, <<>>)
Workers == 1 .. MaxConcurrency

\* symbolResults.flat()
RECURSIVE flat(_, _)
flat(R, n) == IF n = 0 THEN <<>> ELSE flat(R, n - 1) \o R[n]

\* .filter(isFiniteNumber(score), entry, stopLoss, takeProfit)
RECURSIVE filterFinite(_)
filterFinite(S) ==
  IF S = <<>> THEN <<>>
  ELSE IF Head(S).finite THEN <<Head(S)>> \o filterFinite(Tail(S))
  ELSE filterFinite(Tail(S))

\* the array left as it is
unsorted(S) == S

\* .sort((a, b) => b.score - a.score), a stable sort
RECURSIVE insertByScore(_, _)
insertByScore(S, c) ==
  IF S = <<>> THEN <<c>>
  ELSE IF Head(S).score >= c.score THEN <<Head(S)>> \o insertByScore(Tail(S), c)
  ELSE <<c>> \o S
RECURSIVE sortByScoreDesc(_)
sortByScoreDesc(S) ==
  IF S = <<>> THEN <<>>
  ELSE insertByScore(sortByScoreDesc(SubSeq(S, 1, Len(S) - 1)), S[Len(S)])

\* the for loop's try { ... } catch around one timeframe of one symbol
CatchesTimeframeNever == FALSE
CatchesTimeframe == TRUE

\* one worker per item, whatever the configured width
workerPerItem(concurrency) == MaxConcurrency
\* Array.from({ length: Math.max(1, concurrency) }, () => worker())
workerCount(concurrency) == IF concurrency > 1 THEN concurrency ELSE 1

InitScan ==
  /\ scPc = "idle"
  /\ scConc \in 1 .. MaxConcurrency
  /\ scIndex = 0
  /\ scWorker = [w \in Workers |-> WorkerDone]
  /\ scResults = [s \in Symbols |-> <<>>]
  /\ scErrors = <<>>
  /\ scOut = [results |-> <<>>, errors |-> <<>>]
  /\ scFetch = [f \in Fetches |-> "none"]
  /\ scDetected = [f \in Fetches |-> <<>>]

\* runSetupScan is called: mapWithConcurrency starts max(1, concurrency)
\* workers, each taking the next item and running fn up to its first await
scanStart ==
  /\ scPc = "idle"
  /\ scPc' = "mapping"
  /\ LET n == workerCount(scConc)
         taken == IF n < MaxSymbols THEN n ELSE MaxSymbols
     IN /\ scWorker' = [w \in Workers |->
                          IF w <= taken THEN WorkerAt(w, 0, <<>>) ELSE WorkerDone]
        /\ scIndex' = taken
  /\ UNCHANGED <<scConc, scResults, scErrors, scOut, scFetch, scDetected>>
  /\ UNCHANGED <<now, scanFs, scannerVars, alertVars, pureVars, exportVars>>

\* fn returns setups for worker w's symbol, with errs the errors so far:
\* results[currentIndex] is assigned, the worker takes the next item or
\* ends, and when the last worker ends the scan returns
symbolDone(w, setups, errs) ==
  LET R == [scResults EXCEPT ![scWorker[w].sym] = setups]
      more == scIndex < MaxSymbols
      W == [scWorker EXCEPT ![w] =
              IF more THEN WorkerAt(scIndex + 1, 0, <<>>) ELSE WorkerDone]
  IN /\ scResults' = R
     /\ scErrors' = errs
     /\ scWorker' = W
     /\ scIndex' = IF more THEN scIndex + 1 ELSE scIndex
     /\ IF \A v \in Workers : W[v] = WorkerDone
        THEN /\ scPc' = "returned"
             /\ scOut' = [results |->
                            sortByScoreDesc(filterFinite(flat(R, MaxSymbols))),
                          errors |-> errs]
        ELSE UNCHANGED <<scPc, scOut>>

\* the 4h fetchFuturesKlines of worker w's symbol returns or throws
TrendResp(w, ok) ==
  /\ scPc = "mapping"
  /\ scWorker[w].sym # 0
  /\ scWorker[w].stage = 0
  /\ LET sym == scWorker[w].sym
     IN /\ scFetch' = [scFetch EXCEPT ![<<sym, TrendTimeframe>>] =
                         IF ok THEN "ok" ELSE "failed"]
        /\ IF ok
           THEN /\ scWorker' = [scWorker EXCEPT ![w].stage = 1]
                /\ UNCHANGED <<scPc, scIndex, scResults, scErrors, scOut>>
           ELSE symbolDone(w, <<>>,
                  Append(scErrors, SymbolError(sym, "4h trend fetch failed")))
  /\ UNCHANGED <<scConc, scDetected>>
  /\ UNCHANGED <<now, scanFs, scannerVars, alertVars, pureVars, exportVars>>

\* the fetchFuturesKlines of one timeframe of worker w's symbol returns
\* (runDetectors gives det) or throws
KlinesResp(w, ok, det) ==
  /\ scPc = "mapping"
  /\ scWorker[w].sym # 0
  /\ scWorker[w].stage >= 1
  /\ LET sym == scWorker[w].sym
         t == scWorker[w].stage
         tf == Timeframes[t]
         setups == IF ok THEN scWorker[w].setups \o det ELSE scWorker[w].setups
     IN /\ ok => det \in Detections(sym, tf)
        /\ ~ok => det = <<>>
        /\ scFetch' = [scFetch EXCEPT ![<<sym, tf>>] =
                         IF ok THEN "ok" ELSE "failed"]
        /\ scDetected' = [scDetected EXCEPT ![<<sym, tf>>] = det]
        /\ IF ~ok /\ ~CatchesTimeframe
           THEN symbolDone(w, <<>>,
                  Append(scErrors, SymbolError(sym, "4h trend fetch failed")))
           ELSE LET errs == IF ok THEN scErrors
                            ELSE Append(scErrors,
                                        SymbolError(sym, tf \o " klines failed"))
                IN IF t < Len(Timeframes)
                   THEN /\ scWorker' = [scWorker EXCEPT
                                          ![w] = WorkerAt(sym, t + 1, setups)]
                        /\ scErrors' = errs
                        /\ UNCHANGED <<scPc, scIndex, scResults, scOut>>
                   ELSE symbolDone(w, setups, errs)
  /\ UNCHANGED scConc
  /\ UNCHANGED <<now, scanFs, scannerVars, alertVars, pureVars, exportVars>>

NextScan ==
  \/ scanStart
  \/ \E w \in Workers, ok \in BOOLEAN : TrendResp(w, ok)
  \/ \E w \in Workers, ok \in BOOLEAN :
       \E det \in UNION {Detections(s, Timeframes[t]) :
                           s \in Symbols, t \in 1 .. Len(Timeframes)} :
         KlinesResp(w, ok, det)

\* -------------------------------------------- indicators and detectors
\* Numbers.  A price is a whole number of tenths (100.6 is 1006).  A value
\* computed from prices (a moving average, ATR, the tolerance, a stop, a
\* target) is a whole number of 1/10000 of a tenth, so that 0.15% of a close
\* and a quarter of ATR are whole.  RSI is in points of 1/100.
Null == 0 - 1

Fine(p) == p * 10000

MaxOf(a, b) == IF a >= b THEN a ELSE b

MinOf(a, b) == IF a <= b THEN a ELSE b

AbsOf(a) == IF a >= 0 THEN a ELSE 0 - a

Candle(o, h, l, c, v) ==
  [open |-> o, high |-> h, low |-> l, close |-> c, volume |-> v]

RECURSIVE sumOf(_, _, _)
sumOf(values, from, to) ==
  IF from > to THEN 0
  ELSE IF from = to THEN values[from]
  ELSE sumOf(values, from, (from + to) \div 2)
         + sumOf(values, (from + to) \div 2 + 1, to)

\* sma: the mean of the last `period` values, null when there are fewer
sma(values, period) ==
  IF period <= 0 THEN Null
  ELSE IF Len(values) < period THEN Null
  ELSE Fine(sumOf(values, Len(values) - period + 1, Len(values))) \div period

closesOf(candles) == [i \in 1 .. Len(candles) |-> candles[i].close]

volumesOf(candles) == [i \in 1 .. Len(candles) |-> candles[i].volume]

\* the true range of candle i (i >= 2), in tenths
trueRange(candles, i) ==
  MaxOf(candles[i].high - candles[i].low,
        MaxOf(AbsOf(candles[i].high - candles[i - 1].close),
              AbsOf(candles[i].low - candles[i - 1].close)))

trsOf(candles) == [i \in 1 .. Len(candles) - 1 |-> trueRange(candles, i + 1)]

\* (an average of non-negative values is never negative: the second test
\* only has the running value computed at every step)
RECURSIVE wilder(_, _, _, _)
wilder(value, xs, i, period) ==
  IF i > Len(xs) \/ value < 0 THEN value
  ELSE wilder((value * (period - 1) + Fine(xs[i])) \div period, xs, i + 1,
              period)

\* atr: Wilder's average of the true ranges, seeded with the mean of the
\* first `period` of them
atr(candles, period) ==
  IF period <= 0 THEN Null
  ELSE IF Len(candles) < period + 1 THEN Null
  ELSE wilder(Fine(sumOf(trsOf(candles), 1, period)) \div period,
              trsOf(candles), period + 1, period)

gainsOf(closes) ==
  [i \in 1 .. Len(closes) - 1 |->
     IF closes[i + 1] - closes[i] > 0 THEN closes[i + 1] - closes[i] ELSE 0]

lossesOf(closes) ==
  [i \in 1 .. Len(closes) - 1 |->
     IF closes[i + 1] - closes[i] < 0 THEN closes[i] - closes[i + 1] ELSE 0]

avgOf(xs, period) ==
  wilder(Fine(sumOf(xs, 1, period)) \div period, xs, period + 1, period)

\* rsi: 100 when the average loss is zero, else 100 - 100 / (1 + rs)
rsi(candles, period) ==
  IF period <= 0 THEN Null
  ELSE IF Len(candles) < period + 1 THEN Null
  ELSE LET avgGain == avgOf(gainsOf(closesOf(candles)), period)
           avgLoss == avgOf(lossesOf(closesOf(candles)), period)
       IN  IF avgLoss = 0 THEN 10000
           ELSE ((avgGain * 1000) \div (avgGain + avgLoss)) * 10

computeIndicators(candles) ==
  [atr14 |-> atr(candles, 14),
   rsi14 |-> rsi(candles, 14),
   sma20 |-> sma(closesOf(candles), 20),
   sma50 |-> sma(closesOf(candles), 50)]

clampScore(score) == MaxOf(0, MinOf(100, score))

\* reward / risk in hundredths, null unless both are positive
rrLong(entry, stop, tp) ==
  IF entry - stop <= 0 \/ tp - entry <= 0 THEN Null
  ELSE ((tp - entry) * 100) \div (entry - stop)

rrShort(entry, stop, tp) ==
  IF stop - entry <= 0 \/ entry - tp <= 0 THEN Null
  ELSE ((entry - tp) * 100) \div (stop - entry)

\* entry * (1 +- movePct), movePct = targetRoiPct / max(1, maxLeverage) / 100
takeProfitFromTarget(entry, dir, maxLeverage, targetRoiPct) ==
  LET move == (entry * targetRoiPct) \div (MaxOf(1, maxLeverage) * 100)
  IN  IF dir = "LONG" THEN entry + move ELSE entry - move

\* the larger of 0.15% of the last close and a quarter of ATR; a null or
\* zero ATR counts as none
tolerance(lastClose, atr14) ==
  MaxOf(lastClose * 15, IF atr14 # Null /\ atr14 # 0 THEN atr14 \div 4 ELSE 0)

\* 5 when the last volume is above 1.2 times the 20-bar mean volume
volumeBoost(candles) ==
  IF Len(candles) < 25 THEN 0
  ELSE LET volSma20 == sma(volumesOf(candles), 20)
       IN  IF volSma20 = Null \/ volSma20 <= 0 THEN 0
           ELSE IF Fine(candles[Len(candles)].volume) * 5 > volSma20 * 6
                THEN 5 ELSE 0

rrPoints(rr) ==
  IF rr = Null THEN 0
  ELSE IF rr >= 250 THEN 18
  ELSE IF rr >= 200 THEN 14
  ELSE IF rr >= 150 THEN 10
  ELSE IF rr >= 120 THEN 6
  ELSE 0

rsiPoints(rsi14, dir) ==
  IF rsi14 = Null THEN 0
  ELSE IF dir = "LONG"
       THEN IF rsi14 >= 4500 /\ rsi14 <= 6500 THEN 10
            ELSE IF rsi14 > 7500 THEN 0 - 6 ELSE 0
       ELSE IF rsi14 >= 3500 /\ rsi14 <= 5500 THEN 10
            ELSE IF rsi14 < 2500 THEN 0 - 6 ELSE 0

\* the score before the detector's own bonus (the reasons are not modelled)
scoreBase(trendAligned, rr, rsi14, dir, candles) ==
  45 + (IF trendAligned THEN 20 ELSE 0 - 20) + rrPoints(rr)
     + rsiPoints(rsi14, dir) + volumeBoost(candles)

maxHigh(candles, from, to) ==
  CHOOSE h \in {candles[i].high : i \in from .. to} :
    \A i \in from .. to : candles[i].high <= h

minLow(candles, from, to) ==
  CHOOSE l \in {candles[i].low : i \in from .. to} :
    \A i \in from .. to : candles[i].low >= l

SetupCandidate(input, dir, strategy, score, entry, zone, stopLoss, tp, rr) ==
  [symbol |-> input.symbol, timeframe |-> input.timeframe,
   trend4h |-> input.trend4h, direction |-> dir, strategy |-> strategy,
   score |-> score, entry |-> entry, entryZone |-> zone,
   stopLoss |-> stopLoss, takeProfit |-> tp, rr |-> rr]

basePeriod == 20
breakoutLookback == 12

\* the bars of the lookback (the 12 before the current one) that closed
\* beyond the extreme of their own 20 prior bars by more than 0.1%
breakoutBars(candles, wantLong) ==
  {i \in Len(candles) - breakoutLookback .. Len(candles) - 1 :
     /\ i - 1 - basePeriod >= 0
     /\ IF wantLong
        THEN candles[i].close * 1000
               > maxHigh(candles, i - basePeriod, i - 1) * 1001
        ELSE candles[i].close * 1000
               < minLow(candles, i - basePeriod, i - 1) * 999}

latestOf(S) == CHOOSE i \in S : \A j \in S : j <= i

\* the level of the last breakout bar in the lookback, 0 when there is none
breakoutLevelOf(candles, wantLong) ==
  IF breakoutBars(candles, wantLong) = {} THEN 0
  ELSE LET i == latestOf(breakoutBars(candles, wantLong))
       IN  IF wantLong THEN maxHigh(candles, i - basePeriod, i - 1)
           ELSE minLow(candles, i - basePeriod, i - 1)

\* every trend taken for a direction
directionalAlways(trend4h) == TRUE
\* if (input.trend4h !== "UP" && input.trend4h !== "DOWN") return [];
directional(trend4h) == trend4h = "UP" \/ trend4h = "DOWN"

detectBreakoutRetest(input) ==
  LET candles == input.candles
      indicators == input.indicators
      wantLong == input.trend4h = "UP"
      wantShort == input.trend4h = "DOWN"
      current == candles[Len(candles)]
      tol == tolerance(current.close, indicators.atr14)
      breakoutLevel == breakoutLevelOf(candles, wantLong)
      dir == IF wantLong THEN "LONG" ELSE "SHORT"
      retestOk ==
        IF dir = "LONG"
        THEN /\ Fine(current.low) <= Fine(breakoutLevel) + tol
             /\ Fine(current.close) >= Fine(breakoutLevel) - tol
             /\ Fine(current.close) <= Fine(breakoutLevel) + tol * 2
             /\ current.close >= current.open
        ELSE /\ Fine(current.high) >= Fine(breakoutLevel) - tol
             /\ Fine(current.close) <= Fine(breakoutLevel) + tol
             /\ Fine(current.close) >= Fine(breakoutLevel) - tol * 2
             /\ current.close <= current.open
      entry == Fine(breakoutLevel)
      tp == takeProfitFromTarget(entry, dir, input.maxLeverage,
                                 input.targetRoiPct)
      stopDistance ==
        ((IF indicators.atr14 = Null THEN tol ELSE indicators.atr14) * 3)
          \div 2
      stopLoss == IF dir = "LONG" THEN entry - stopDistance
                  ELSE entry + stopDistance
      rr == IF dir = "LONG" THEN rrLong(entry, stopLoss, tp)
            ELSE rrShort(entry, stopLoss, tp)
      base == scoreBase(TRUE, rr, indicators.rsi14, dir, candles)
  IN  IF Len(candles) < 40 THEN <<>>
      ELSE IF ~directional(input.trend4h) THEN <<>>
      ELSE IF breakoutLevel = 0 THEN <<>>
      ELSE IF ~retestOk THEN <<>>
      ELSE <<SetupCandidate(input, dir, "BREAKOUT_RETEST",
                            clampScore(base + 10), entry,
                            <<entry - tol \div 2, entry + tol \div 2>>,
                            stopLoss, tp, rr)>>

detectTrendPullback(input) ==
  LET candles == input.candles
      indicators == input.indicators
      current == candles[Len(candles)]
      prev == candles[Len(candles) - 1]
      tol == tolerance(current.close, indicators.atr14)
      wantLong == input.trend4h = "UP"
      dir == IF wantLong THEN "LONG" ELSE "SHORT"
      sma20v == indicators.sma20
      sma50v == indicators.sma50
      near20 == IF wantLong THEN Fine(current.low) <= sma20v + tol
                ELSE Fine(current.high) >= sma20v - tol
      near50 == IF wantLong THEN Fine(current.low) <= sma50v + tol
                ELSE Fine(current.high) >= sma50v - tol
      reclaim == IF wantLong THEN Fine(current.close) >= sma20v
                 ELSE Fine(current.close) <= sma20v
      momentum == IF wantLong THEN current.close >= current.open
                  ELSE current.close <= current.open
      pullbackCandle == IF wantLong THEN prev.close < prev.open
                        ELSE prev.close > prev.open
      rsiOk ==
        IF indicators.rsi14 = Null THEN TRUE
        ELSE IF wantLong
             THEN indicators.rsi14 >= 4000 /\ indicators.rsi14 <= 6500
             ELSE indicators.rsi14 >= 3500 /\ indicators.rsi14 <= 6000
      entry == Fine(current.close)
      stopDistance ==
        ((IF indicators.atr14 = Null THEN tol ELSE indicators.atr14) * 6)
          \div 5
      stopLoss == IF wantLong THEN Fine(current.low) - stopDistance
                  ELSE Fine(current.high) + stopDistance
      tp == takeProfitFromTarget(entry, dir, input.maxLeverage,
                                 input.targetRoiPct)
      rr == IF wantLong THEN rrLong(entry, stopLoss, tp)
            ELSE rrShort(entry, stopLoss, tp)
      base == scoreBase(TRUE, rr, indicators.rsi14, dir, candles)
  IN  IF Len(candles) < 60 THEN <<>>
      ELSE IF ~directional(input.trend4h) THEN <<>>
      ELSE IF sma20v = Null \/ sma20v = 0 \/ sma50v = Null \/ sma50v = 0
           THEN <<>>
      ELSE IF ~(reclaim /\ momentum /\ pullbackCandle /\ rsiOk
                /\ (near20 \/ near50)) THEN <<>>
      ELSE <<SetupCandidate(input, dir, "TREND_PULLBACK",
                            clampScore(base + 8), entry, <<>>, stopLoss, tp,
                            rr)>>

detectContinuation(input) ==
  LET candles == input.candles
      indicators == input.indicators
      current == candles[Len(candles)]
      sma20v == indicators.sma20
      sma50v == indicators.sma50
      wantLong == input.trend4h = "UP"
      dir == IF wantLong THEN "LONG" ELSE "SHORT"
      maAligned == IF wantLong THEN sma20v > sma50v ELSE sma20v < sma50v
      lookback == 20
      breakoutOk ==
        IF wantLong
        THEN current.close * 1000
               > maxHigh(candles, Len(candles) - lookback,
                         Len(candles) - 1) * 1001
        ELSE current.close * 1000
               < minLow(candles, Len(candles) - lookback,
                        Len(candles) - 1) * 999
      entry == Fine(current.close)
      stopDistance ==
        ((IF indicators.atr14 = Null THEN (entry * 2) \div 1000
          ELSE indicators.atr14) * 9) \div 5
      stopLoss == IF wantLong THEN entry - stopDistance
                  ELSE entry + stopDistance
      tp == takeProfitFromTarget(entry, dir, input.maxLeverage,
                                 input.targetRoiPct)
      rr == IF wantLong THEN rrLong(entry, stopLoss, tp)
            ELSE rrShort(entry, stopLoss, tp)
      base == scoreBase(TRUE, rr, indicators.rsi14, dir, candles)
  IN  IF Len(candles) < 80 THEN <<>>
      ELSE IF ~directional(input.trend4h) THEN <<>>
      ELSE IF sma20v = Null \/ sma20v = 0 \/ sma50v = Null \/ sma50v = 0
           THEN <<>>
      ELSE IF ~maAligned THEN <<>>
      ELSE IF Len(candles) < lookback + 2 THEN <<>>
      ELSE IF ~breakoutOk THEN <<>>
      ELSE <<SetupCandidate(input, dir, "CONTINUATION",
                            clampScore(base + 6), entry, <<>>, stopLoss, tp,
                            rr)>>

setupKey(s) == <<s.symbol, s.timeframe, s.strategy, s.direction>>

\* the Map of runDetectors: a setup replaces an earlier one of the same key
\* (in the earlier one's place) only with a strictly higher score
RECURSIVE dedupe(_, _)
dedupe(kept, setups) ==
  IF setups = <<>> THEN kept
  ELSE LET s == Head(setups)
           same == {i \in 1 .. Len(kept) : setupKey(kept[i]) = setupKey(s)}
       IN  IF same = {} THEN dedupe(Append(kept, s), Tail(setups))
           ELSE IF s.score > kept[latestOf(same)].score
                THEN dedupe([kept EXCEPT ![latestOf(same)] = s],
                            Tail(setups))
                ELSE dedupe(kept, Tail(setups))

runDetectors(input) ==
  dedupe(<<>>, detectBreakoutRetest(input) \o detectTrendPullback(input)
                 \o detectContinuation(input))

DetectorInput(candles, trend4h, maxLeverage, targetRoiPct) ==
  [symbol |-> "BTCUSDC", timeframe |-> "15m", trend4h |-> trend4h,
   candles |-> candles, indicators |-> computeIndicators(candles),
   maxLeverage |-> maxLeverage, targetRoiPct |-> targetRoiPct]

NoInput == DetectorInput(<<>>, "NEUTRAL", 0, 0)

NotRun == [done |-> FALSE, setups |-> <<>>]

\* ---- the candle windows the detectors are run on.  A window is written
\* for an up-move and mirrored for a down-move: a range under 1000 (100.0)
\* of alternating bullish and bearish bars, `width` tenths either side of
\* its middle, the bars older than 30 lower by `drift`, optionally a bar
\* closing at 1005 twelve bars before the current one, and the current bar.
RangeBar(j, width, flip, drift) ==
  LET mid == 1000 - width - drift
  IN  IF (j + flip) % 2 = 1
      THEN Candle(mid - 1, 1000 - drift, 1000 - 2 * width - drift, mid + 1, 10)
      ELSE Candle(mid + 1, 1000 - drift, 1000 - 2 * width - drift, mid - 1, 10)

BreakoutBar(width) == Candle(1000 - width, 1005, 1000 - width, 1005, 10)

ScenarioBar == Candle(1002, 1006, 999, 1006, 10)

LastBars ==
  {ScenarioBar,
   Candle(999, 1001, 998, 1001, 10),
   Candle(997, 1000, 996, 999, 30),
   Candle(1000, 1010, 999, 1010, 10),
   Candle(1001, 1001, 997, 998, 10)}

UpWindow(len, width, flip, drift, broke, last) ==
  [j \in 1 .. len |->
     IF j = len THEN last
     ELSE IF broke /\ j = len - breakoutLookback THEN BreakoutBar(width)
     ELSE IF j <= len - 30 THEN RangeBar(j, width, flip, drift)
     ELSE RangeBar(j, width, flip, 0)]

Mirror(c, width) ==
  Candle(2 * (1000 - width) - c.open, 2 * (1000 - width) - c.low,
         2 * (1000 - width) - c.high, 2 * (1000 - width) - c.close, c.volume)

DownWindow(len, width, flip, drift, broke, last) ==
  [j \in 1 .. len |->
     Mirror(UpWindow(len, width, flip, drift, broke, last)[j], width)]

WindowLengths == {40, 60, 80}
Widths == {2, 10}
Drifts == {0, 20}
Trends == {"UP", "DOWN", "NEUTRAL"}

Windows ==
  UNION {{UpWindow(len, width, flip, drift, broke, last),
          DownWindow(len, width, flip, drift, broke, last)} :
           len \in WindowLengths, width \in Widths, flip \in {0, 1},
           drift \in Drifts, broke \in BOOLEAN, last \in LastBars}

\* getRiskConstraints takes any finite MAX_LEVERAGE and TARGET_ROI_PCT
Leverages == {3, 0}
TargetRois == {10, 0}

DetectorInputs ==
  {DetectorInput(candles, trend4h, maxLeverage, targetRoiPct) :
     candles \in Windows, trend4h \in Trends, maxLeverage \in Leverages,
     targetRoiPct \in TargetRois}

PositionSizingInput(walletEquity, riskPerTradePct, entry, stopLoss,
                    takeProfit, direction, maxLeverage) ==
  [walletEquity |-> walletEquity, riskPerTradePct |-> riskPerTradePct,
   entry |-> entry, stopLoss |-> stopLoss, takeProfit |-> takeProfit,
   direction |-> direction, maxLeverage |-> maxLeverage]

NoSizingInput == PositionSizingInput(0, 0, 0, 0, 0, "LONG", 0)

\* ---- calculatePositionSizing.  walletEquity and maxLeverage are in
\* thousandths (123.457 is 123457; maxLeverage 0 stands for none), the
\* prices and riskPerTradePct are whole numbers; the results are in
\* hundredths, as roundToSignificant(value, 2) leaves them.
Sizing(done, isNull, leverageRequired, notionalUsd) ==
  [done |-> done, isNull |-> isNull, leverageRequired |-> leverageRequired,
   notionalUsd |-> notionalUsd]

NotSized == Sizing(FALSE, TRUE, 0, 0)

\* Math.round(value * 100) / 100 of a value given in units of 1 / unit
roundToSignificant(value, unit) == (value * 100 + unit \div 2) \div unit

neverCapped(maxLeverage, leverageRequired) == FALSE

\* maxLeverage && leverageRequired > maxLeverage
capped(maxLeverage, leverageRequired) ==
  maxLeverage # 0 /\ leverageRequired > maxLeverage

\* leverageRequired and notionalUsd of the result (quantity, riskUsd,
\* rewardUsd and riskPct follow from notionalUsd and are left out)
calculatePositionSizing(input) ==
  LET stopDistance == AbsOf(input.entry - input.stopLoss)
      \* notionalUsd / walletEquity = riskPerTradePct / 100 / stopDistancePct
      rawLeverage == (input.riskPerTradePct * input.entry * 10)
                       \div stopDistance
      leverageRequired ==
        IF capped(input.maxLeverage, rawLeverage) THEN input.maxLeverage
        ELSE rawLeverage
      notionalUsd == input.walletEquity * leverageRequired
  IN  IF \/ input.walletEquity <= 0
         \/ input.entry <= 0
         \/ input.stopLoss <= 0
         \/ input.takeProfit <= 0
      THEN Sizing(TRUE, TRUE, 0, 0)
      ELSE IF stopDistance <= 0 \/ stopDistance >= input.entry
           THEN Sizing(TRUE, TRUE, 0, 0)
      ELSE Sizing(TRUE, FALSE, roundToSignificant(leverageRequired, 1000),
                  roundToSignificant(notionalUsd \div 100, 10000))

Equities == {100000, 123457, 0}
RiskPcts == {1, 5}
Entries == {1000, 0}
Stops == {990, 995, 900, 1010}
Targets == {1020, 980, 0}
Caps == {3000, 2125, 10000, 0}

SizingInputs ==
  {PositionSizingInput(walletEquity, riskPerTradePct, entry, stopLoss,
                       takeProfit, direction, maxLeverage) :
     walletEquity \in Equities, riskPerTradePct \in RiskPcts,
     entry \in Entries, stopLoss \in Stops, takeProfit \in Targets,
     direction \in {"LONG", "SHORT"}, maxLeverage \in Caps}

\* runNow's call of calculatePositionSizing for one setup
calculatePositionSizingCall ==
  /\ sizingInput # NoSizingInput
  /\ ~sizing.done
  /\ sizing' = calculatePositionSizing(sizingInput)
  /\ UNCHANGED <<detectorInput, detected, sizingInput, positionsInput,
                 liquidationCalls>>
  /\ UNCHANGED <<scPc, scConc, scIndex, scWorker, scResults, scErrors, scOut,
                 scFetch, scDetected>>
  /\ UNCHANGED <<now, scanFs, scannerVars, alertVars, exportVars>>

NextSizing == calculatePositionSizingCall

\* ---- checkPositions: the liquidation rule.  A row is a position as
\* fetchFuturesPositionRisk returns it; liquidationPrice 0 stands for null
\* (the exchange's value was not above 0).  Prices are whole numbers, the
\* threshold is in tenths of a percent.
Position(symbol, positionSide, amount, markPrice, liquidationPrice) ==
  [symbol |-> symbol, positionSide |-> positionSide, amount |-> amount,
   markPrice |-> markPrice, liquidationPrice |-> liquidationPrice]

positionDirection(p) ==
  IF p.positionSide = "LONG" THEN "LONG"
  ELSE IF p.positionSide = "SHORT" THEN "SHORT"
  ELSE IF p.amount > 0 THEN "LONG"
  ELSE IF p.amount < 0 THEN "SHORT"
  ELSE "FLAT"

\* the distance as the fraction num / den of a percent, or null
Distance(isNull, num, den) == [isNull |-> isNull, num |-> num, den |-> den]

pctDistanceToLiquidation(dir, mark, liq) ==
  IF mark <= 0 THEN Distance(TRUE, 0, 1)
  ELSE IF liq <= 0 THEN Distance(TRUE, 0, 1)
  ELSE Distance(FALSE, AbsOf(mark - liq) * 100, mark)

liquidationDistancePct(dir, mark, liq) ==
  IF mark <= 0 THEN Distance(TRUE, 0, 1)
  ELSE IF liq <= 0 THEN Distance(TRUE, 0, 1)
  ELSE IF dir = "LONG" THEN Distance(FALSE, (mark - liq) * 100, mark)
  ELSE Distance(FALSE, (liq - mark) * 100, mark)

\* dist !== null && dist <= config.liquidationDistancePct
withinThreshold(dist, thresholdTenths) ==
  ~dist.isNull /\ dist.num * 10 <= thresholdTenths * dist.den

PositionsCap == 25

\* positions.slice(0, 25) of the rows with a non-zero amount
positionsChecked(rows) ==
  LET open(p) == p.amount # 0
      positions == SelectSeq(rows, open)
  IN  SubSeq(positions, 1, MinOf(PositionsCap, Len(positions)))

severityFor(type) ==
  IF type = "LIQUIDATION_RISK" THEN "CRITICAL"
  ELSE IF type = "STOP_PROXIMITY" THEN "WARN"
  ELSE "INFO"

LiquidationAlert(p) ==
  [type |-> "LIQUIDATION_RISK", severity |-> severityFor("LIQUIDATION_RISK"),
   dedupeKey |-> <<"LIQUIDATION_RISK", p.symbol, p.positionSide>>]

\* the positions of the loop for which createAlert is called with
\* LIQUIDATION_RISK, in loop order
liquidationDue(rows, thresholdTenths) ==
  LET due(p) ==
        /\ positionDirection(p) # "FLAT"
        /\ p.liquidationPrice # 0
        /\ withinThreshold(
             liquidationDistancePct(positionDirection(p), p.markPrice,
                                    p.liquidationPrice),
             thresholdTenths)
  IN  SelectSeq(positionsChecked(rows), due)

SafeRow(k) == Position(k, "BOTH", 1, 100, 50)
ClosedRow(k) == Position(k, "BOTH", 0, 100, 0)

SubjectRows(k) ==
  {Position(k, side, amount, 100, liq) :
     side \in {"BOTH", "LONG", "SHORT"}, amount \in {0 - 1, 0, 1},
     liq \in {0, 90, 95, 96, 104, 105, 110}}

\* k - 1 rows of one kind, then the row looked at
RowsBefore(k, closed) ==
  [j \in 1 .. k - 1 |-> IF closed THEN ClosedRow(j) ELSE SafeRow(j)]

SubjectPlaces == {1, PositionsCap, PositionsCap + 1}

\* config.liquidationDistancePct: 5% by default, at least 0.1%
Thresholds == {50, 1}

PositionsInputs ==
  UNION {{[rows |-> Append(RowsBefore(k, closed), p), threshold |-> t] :
            closed \in BOOLEAN, t \in Thresholds, p \in SubjectRows(k)} :
           k \in SubjectPlaces}

NoPositions == [rows |-> <<>>, threshold |-> 50]

NoCalls == [done |-> FALSE, calls |-> <<>>]

\* checkPositions on the rows of one fetch, every await of it returning:
\* its createAlert calls of the LIQUIDATION_RISK rule
checkPositionsLiquidation ==
  /\ positionsInput # NoPositions
  /\ ~liquidationCalls.done
  /\ liquidationCalls' =
       [done |-> TRUE,
        calls |-> [k \in 1 .. Len(liquidationDue(positionsInput.rows,
                                                 positionsInput.threshold)) |->
                     LiquidationAlert(
                       liquidationDue(positionsInput.rows,
                                      positionsInput.threshold)[k])]]
  /\ UNCHANGED <<detectorInput, detected, sizingInput, sizing, positionsInput>>
  /\ UNCHANGED <<scPc, scConc, scIndex, scWorker, scResults, scErrors, scOut,
                 scFetch, scDetected>>
  /\ UNCHANGED <<now, scanFs, scannerVars, alertVars, exportVars>>

NextLiquidation == checkPositionsLiquidation

\* no call of a pure function is in progress
InitPure ==
  /\ detectorInput = NoInput
  /\ detected = NotRun
  /\ sizingInput = NoSizingInput
  /\ sizing = NotSized
  /\ positionsInput = NoPositions
  /\ liquidationCalls = NoCalls

\* runSetupScan's call of runDetectors on the candles of one fetch
runDetectorsCall ==
  /\ detectorInput # NoInput
  /\ ~detected.done
  /\ detected' = [done |-> TRUE, setups |-> runDetectors(detectorInput)]
  /\ UNCHANGED <<detectorInput, sizingInput, sizing, positionsInput,
                 liquidationCalls>>
  /\ UNCHANGED <<scPc, scConc, scIndex, scWorker, scResults, scErrors, scOut,
                 scFetch, scDetected>>
  /\ UNCHANGED <<now, scanFs, scannerVars, alertVars, exportVars>>

NextDetect == runDetectorsCall

\* ---- the per-symbol worker of runSetupScan: the 4h trend, then the
\* detectors on every timeframe
\* computeTrend4h(candles), buffer 0.001
computeTrend4h(candles) ==
  LET closes == closesOf(candles)
      sma50 == sma(closes, 50)
      sma200 == sma(closes, 200)
  IN  IF sma50 = Null \/ sma50 = 0 \/ sma200 = Null \/ sma200 = 0
      THEN "NEUTRAL"
      ELSE IF (sma50 - sma200) * 1000 > sma200 THEN "UP"
      ELSE IF (sma200 - sma50) * 1000 > sma200 THEN "DOWN"
      ELSE "NEUTRAL"

\* the input of runDetectors for one timeframe of the symbol
DetectorInputAt(timeframe, candles, trend4h, maxLeverage, targetRoiPct) ==
  [DetectorInput(candles, trend4h, maxLeverage, targetRoiPct)
     EXCEPT !.timeframe = timeframe]

\* what the worker meets: the 4h candles, the candles of each timeframe and
\* the fetches that throw (0 for the 4h fetch, t for that of Timeframes[t])
SymbolInput(trendCandles, candles, failed, maxLeverage, targetRoiPct) ==
  [trendCandles |-> trendCandles, candles |-> candles, failed |-> failed,
   maxLeverage |-> maxLeverage, targetRoiPct |-> targetRoiPct]

\* for (const timeframe of timeframes) setups.push(...runDetectors(...))
RECURSIVE setupsUpTo(_, _, _)
setupsUpTo(input, trend4h, t) ==
  IF t = 0 THEN <<>>
  ELSE IF t \in input.failed THEN setupsUpTo(input, trend4h, t - 1)
  ELSE setupsUpTo(input, trend4h, t - 1)
         \o runDetectors(DetectorInputAt(Timeframes[t], input.candles[t],
                                         trend4h, input.maxLeverage,
                                         input.targetRoiPct))

\* the worker's fn(symbol): nothing when the 4h fetch throws, else the
\* setups of the timeframes whose fetch succeeds
scanSymbol(input) ==
  LET trend4h == computeTrend4h(input.trendCandles)
  IN  IF 0 \in input.failed
      THEN [done |-> TRUE, trend4h |-> "none", setups |-> <<>>]
      ELSE [done |-> TRUE, trend4h |-> trend4h,
            setups |-> setupsUpTo(input, trend4h, Len(Timeframes))]

\* 4h series: `older` for the bars before the last 50, `recent` for these
TrendBar(c) == Candle(c, c, c, c, 10)
TrendSeriesOf(len, older, recent) ==
  [j \in 1 .. len |-> IF j <= len - 50 THEN TrendBar(older) ELSE TrendBar(recent)]
TrendSeries ==
  {TrendSeriesOf(200, 960, 1000), TrendSeriesOf(200, 1040, 1000),
   TrendSeriesOf(200, 1000, 1000), TrendSeriesOf(200, 1000, 1001),
   TrendSeriesOf(120, 900, 1000)}

\* the windows of the second timeframe
HourWindows ==
  {UpWindow(80, 2, 0, 0, TRUE, Candle(1000, 1010, 999, 1010, 10)),
   DownWindow(80, 2, 0, 0, TRUE, ScenarioBar)}

FetchFailures == {{}, {0}, {1}, {2}}

SymbolInputs ==
  {SymbolInput(trendCandles, <<quarter, hour>>, failed, 3, 10) :
     trendCandles \in TrendSeries, quarter \in Windows, hour \in HourWindows,
     failed \in FetchFailures}

scanSymbolCall ==
  /\ "trendCandles" \in DOMAIN detectorInput
  /\ ~detected.done
  /\ detected' = scanSymbol(detectorInput)
  /\ UNCHANGED <<detectorInput, sizingInput, sizing, positionsInput,
                 liquidationCalls>>
  /\ UNCHANGED <<scPc, scConc, scIndex, scWorker, scResults, scErrors, scOut,
                 scFetch, scDetected>>
  /\ UNCHANGED <<now, scanFs, scannerVars, alertVars, exportVars>>

NextSymbol == scanSymbolCall

InitServices ==
  InitShared /\ InitScanner /\ InitAlerts /\ InitScan /\ InitExport

Init == InitServices /\ InitPure

\* the scanner service on its own: the alert side stays as constructed
InitScannerOnly ==
  Init /\ ~alertFs.main.exists /\ scConc = 1 /\ wlFile = DEFAULT_WATCHLIST

SpecScanner == InitScannerOnly /\ [][NextScanner]_vars

\* the alert store and monitor on their own: the scanner is not started
InitAlertsOnly ==
  /\ Init
  /\ cfg = [enabled |-> TRUE, runOnStart |-> FALSE]
  /\ scConc = 1
  /\ wlFile = DEFAULT_WATCHLIST

SpecAlerts == InitAlertsOnly /\ [][NextAlerts]_vars

SpecTick == InitAlertsOnly /\ [][NextTick]_vars

SpecStore == InitAlertsOnly /\ [][NextStore]_vars

SpecPass == InitAlertsOnly /\ [][NextPass]_vars

\* the monitor with a scan snapshot to read and no alerts yet
InitOutage == InitAlertsOnly /\ scanFs.main.exists /\ ~alertFs.main.exists

SpecOutage == InitOutage /\ [][NextOutage]_vars

\* one call of runSetupScan on its own
InitScanOnly ==
  /\ Init
  /\ cfg = [enabled |-> TRUE, runOnStart |-> FALSE]
  /\ ~alertFs.main.exists
  /\ ~scanFs.main.exists
  /\ wlFile = DEFAULT_WATCHLIST

SpecScan == InitScanOnly /\ [][NextScan]_vars

\* manual scan runs while the watchlist is edited through PUT /watchlist
InitWatch ==
  /\ Init
  /\ cfg = [enabled |-> TRUE, runOnStart |-> FALSE]
  /\ ~alertFs.main.exists
  /\ scConc = 1

NextWatch ==
  \/ \E c \in ManualCallers : ManualRun(c)
  \/ \E c \in Callers : WatchlistRead(c)
  \/ \E c \in Callers : WatchlistDefaultWritten(c)
  \/ \E symbols \in SetLists : WatchlistSet(symbols)
  \/ WatchlistSetDone
  \/ \E c \in Callers : FetchDone(c)
  \/ \E c \in Callers : RunFail(c)
  \/ \E c \in Callers : WriteDone(c)
  \/ \E c \in Callers : WriteFail(c)

SpecWatch == InitWatch /\ [][NextWatch]_vars

\* runDetectors on its own, on every window and configuration of the family
InitDetect ==
  /\ InitServices
  /\ cfg = [enabled |-> TRUE, runOnStart |-> FALSE]
  /\ ~alertFs.main.exists
  /\ ~scanFs.main.exists
  /\ scConc = 1
  /\ wlFile = DEFAULT_WATCHLIST
  /\ detectorInput \in DetectorInputs
  /\ detected = NotRun
  /\ sizingInput = NoSizingInput
  /\ sizing = NotSized
  /\ positionsInput = NoPositions
  /\ liquidationCalls = NoCalls

SpecDetect == InitDetect /\ [][NextDetect]_vars

\* the per-symbol worker on its own, on every 4h series and window pair
InitSymbol ==
  /\ InitServices
  /\ cfg = [enabled |-> TRUE, runOnStart |-> FALSE]
  /\ ~alertFs.main.exists
  /\ ~scanFs.main.exists
  /\ scConc = 1
  /\ wlFile = DEFAULT_WATCHLIST
  /\ detectorInput \in SymbolInputs
  /\ detected = NotRun
  /\ sizingInput = NoSizingInput
  /\ sizing = NotSized
  /\ positionsInput = NoPositions
  /\ liquidationCalls = NoCalls

SpecSymbol == InitSymbol /\ [][NextSymbol]_vars

\* the liquidation rule of checkPositions on its own
InitLiquidation ==
  /\ InitServices
  /\ cfg = [enabled |-> TRUE, runOnStart |-> FALSE]
  /\ ~alertFs.main.exists
  /\ ~scanFs.main.exists
  /\ scConc = 1
  /\ wlFile = DEFAULT_WATCHLIST
  /\ detectorInput = NoInput
  /\ detected = NotRun
  /\ sizingInput = NoSizingInput
  /\ sizing = NotSized
  /\ positionsInput \in PositionsInputs
  /\ liquidationCalls = NoCalls

SpecLiquidation == InitLiquidation /\ [][NextLiquidation]_vars

\* calculatePositionSizing on its own
InitSizing ==
  /\ InitServices
  /\ cfg = [enabled |-> TRUE, runOnStart |-> FALSE]
  /\ ~alertFs.main.exists
  /\ ~scanFs.main.exists
  /\ scConc = 1
  /\ wlFile = DEFAULT_WATCHLIST
  /\ detectorInput = NoInput
  /\ detected = NotRun
  /\ sizingInput \in SizingInputs
  /\ sizing = NotSized
  /\ positionsInput = NoPositions
  /\ liquidationCalls = NoCalls

SpecSizing == InitSizing /\ [][NextSizing]_vars

\* PUT /watchlist on its own: no watchlist file yet, any bodies
InitPut ==
  /\ InitServices
  /\ InitPure
  /\ cfg = [enabled |-> TRUE, runOnStart |-> FALSE]
  /\ ~alertFs.main.exists
  /\ ~scanFs.main.exists
  /\ scConc = 1
  /\ wlFile = <<>>

SpecPut == InitPut /\ [][NextPut]_vars

\* the export routes next to the monitor and the alerts API
SpecExport == InitAlertsOnly /\ [][NextExport]_vars

\* the dedupe of one rule over time, with acknowledgements
InitDedupe == InitAlertsOnly /\ scanFs.main.exists

SpecDedupe == InitDedupe /\ [][NextDedupe]_vars

\* the whole program; its parts are checked under the specifications above
Next ==
  \/ NextScannerHang
  \/ NextAlerts
  \/ NextStore
  \/ NextPass
  \/ NextScan
  \/ NextWatch
  \/ NextOutage
  \/ NextDetect
  \/ NextSymbol
  \/ NextLiquidation
  \/ NextSizing
  \/ NextPut
  \/ NextExport
  \/ NextDedupe

Spec == Init /\ [][Next]_vars

\* ------------------------------------------------------------- properties
RunsInFlight(rp) == {c \in Callers : rp[c] \in InFlight}

\* C1: a runNow() call made while an earlier run has not finished starts no
\* run: it ends with the "already running" error (409 on the HTTP route)
\* and leaves the snapshot file, latest, lastRunAt and the run in progress
\* as they are; at no time are two scan runs in progress.
C1_ScanConcurrencyGuard ==
  [][ /\ \A c \in Callers :
           (runPc[c] = "idle" /\ runPc'[c] # "idle") => RunsInFlight(runPc) = {}
      /\ (lastOutcome' # lastOutcome /\ lastOutcome'.res = "rejected") =>
           /\ RunsInFlight(runPc) # {}
           /\ HttpStatus(lastOutcome'.res) = 409
           /\ UNCHANGED <<scanFs, latest, lastRunAt, runPc, runAt, running>>
      /\ (RunsInFlight(runPc) # {} /\ lastOutcome' # lastOutcome
            /\ runPc' = runPc) => lastOutcome'.res = "rejected"
      /\ Cardinality(RunsInFlight(runPc')) <= 1 ]_vars

\* a manual call has just been rejected while a run is in progress
C1_Witness ==
  /\ lastOutcome.res = "rejected"
  /\ lastOutcome.caller \in ManualCallers
  /\ \E d \in Callers : runPc[d] \in InFlight /\ d # lastOutcome.caller

\* C7: whatever candle fetches fail, runSetupScan returns once every fetch
\* has been answered; the errors it returns name every symbol with a failed
\* fetch, and its results hold every (finite) candidate detected for a
\* symbol and timeframe whose fetches succeeded.
C7_FailureIsolation ==
  /\ (scPc = "mapping") => (\E w \in Workers : scWorker[w].sym # 0)
  /\ (scPc = "returned") =>
       /\ \A f \in Fetches :
            scFetch[f] = "failed" =>
              \E k \in 1 .. Len(scOut.errors) : scOut.errors[k].symbol = f[1]
       /\ \A s \in Symbols : \A t \in 1 .. Len(Timeframes) :
            (scFetch[<<s, TrendTimeframe>>] = "ok"
               /\ scFetch[<<s, Timeframes[t]>>] = "ok") =>
              \A k \in 1 .. Len(scDetected[<<s, Timeframes[t]>>]) :
                scDetected[<<s, Timeframes[t]>>][k].finite =>
                  \E j \in 1 .. Len(scOut.results) :
                    scOut.results[j] = scDetected[<<s, Timeframes[t]>>][k]

\* the scan has returned after one timeframe of symbol 1 failed, with a
\* candidate of the symbol's other timeframe among the results
C7_Witness ==
  /\ scPc = "returned"
  /\ scFetch[<<1, Timeframes[1]>>] = "failed"
  /\ scFetch[<<1, Timeframes[2]>>] = "ok"
  /\ \E j \in 1 .. Len(scOut.results) :
       scOut.results[j].symbol = 1 /\ scOut.results[j].timeframe = Timeframes[2]
  /\ \E k \in 1 .. Len(scOut.errors) : scOut.errors[k].symbol = 1

\* every pending call of the scanner is answered, fails, or is found to hang;
\* timers fire and the clock moves on
FairScanner ==
  /\ WF_vars(AdvanceTime)
  /\ WF_vars(BootLoaded)
  /\ WF_vars(TimerFire)
  /\ WF_vars(InitialFire)
  /\ WF_vars(\E c \in Callers : WatchlistRead(c))
  /\ WF_vars(\E c \in Callers : FetchDone(c) \/ FetchHang(c) \/ RunFail(c))
  /\ WF_vars(\E c \in Callers : WriteDone(c) \/ WriteFail(c))

LiveSpecScanner ==
  InitScannerOnly /\ [][NextScannerHang]_vars /\ FairScanner

\* C8: every scan run that starts eventually returns the orchestrator to
\* Idle, even when an external call never responds.
C8_NoHang == running ~> ~running

RunEnds(c) == runPc[c] \in InFlight /\ runPc'[c] = "idle"
Rescheduled ==
  /\ nextRunAt' = now + IntervalTicks
  /\ timer' = [armed |-> TRUE, due |-> now + IntervalTicks]

\* C9 (as stated): whenever a scan run ends while the scanner is started,
\* the next run is scheduled at the time the run ended plus the interval,
\* and nextRunAt reports that time.
C9_EveryRunReschedules ==
  [][ \A c \in Callers : (RunEnds(c) /\ started) => Rescheduled ]_vars

\* C9 (amended): whenever a scan run started by the schedule timer ends
\* while the scanner is started, the next run is scheduled at the time the
\* run ended plus the interval and nextRunAt reports that time, never a time
\* derived from the original schedule; a run started by hand or by
\* run-on-start leaves the schedule as it is.
C9_TimerRunReschedules ==
  [][ /\ (RunEnds(TimerCaller) /\ started) => Rescheduled
      /\ \A c \in Callers \ {TimerCaller} :
           RunEnds(c) => UNCHANGED <<nextRunAt, timer>> ]_vars

\* a timer-started run has ended later than it was due, and the next run is
\* scheduled one interval after the end
C9_Witness ==
  /\ started
  /\ lastOutcome.caller = TimerCaller
  /\ lastOutcome.res \in {"ok", "failed"}
  /\ timer.armed
  /\ timer.due = now + IntervalTicks
  /\ nextRunAt = now + IntervalTicks
  /\ lastRunAt # 0 /\ lastRunAt < now

\* C10: a reader of scanner-latest.json or of alerts.json never reads a
\* partially written file, whenever it reads: each file is at any time
\* absent or complete, holding the previous or the new content.
C10_AtomicReplace ==
  /\ ~tornRead
  /\ scanFs.main.exists => scanFs.main.complete
  /\ alertFs.main.exists => alertFs.main.complete

\* each of the two files has been read while a write of it was under way,
\* and both files have been replaced
C10_Witness ==
  /\ readInWrite = {"scan", "alerts"}
  /\ scanFs.main.exists /\ scanFs.main.data.runAt = now
  /\ alertFs.main.exists /\ Len(alertFs.main.data) > 0
  /\ alertFs.main.data[1].id > 1

\* C11 (as stated): a scan run uses the watchlist as the store held it when
\* the run started: the symbols it scans and the watchlist in its result are
\* that list, whatever set() does while the run is in flight.
C11_WatchlistAtRunStart ==
  \A c \in Callers :
    /\ runWl[c].pc = "got" => runWl[c].got = runWl[c].atStart
    /\ runPc[c] = "writing" => scanFs.tmp.data.watchlist = runWl[c].atStart

\* C11 (amended): a scan run uses the watchlist that watchlistStore.get(),
\* its first step, returned: a set() that completes after get() has read
\* the file changes neither the symbols the run scans nor the watchlist
\* recorded in its result (in latest and in the snapshot file); a set() that
\* completes between the start of the run and that read is the list the run
\* uses.
C11_WatchlistAsRead ==
  [][ \A c \in Callers :
        /\ (runWl[c].pc \in {"writing", "got"} /\ runPc'[c] \in InFlight) =>
              runWl'[c].got = runWl[c].got
        /\ (runPc[c] = "fetching" /\ runPc'[c] = "writing") =>
              /\ latest'.watchlist = runWl[c].got
              /\ scanFs'.tmp.data.watchlist = runWl[c].got
        /\ (runPc[c] = "writing" /\ runPc'[c] = "idle"
              /\ lastOutcome'.res = "ok") =>
              scanFs'.main.data.watchlist = runWl[c].got
        /\ (runWl[c].pc = "reading" /\ runWl'[c].pc # "reading"
              /\ runPc'[c] \in InFlight) =>
              runWl'[c].got = storedOrDefault(wlFile) ]_vars

\* a run is writing its result with the list it read, while the store holds
\* another list, stored by a set() that completed after the run's read
C11_Witness ==
  \E c \in ManualCallers :
    /\ runPc[c] = "writing"
    /\ wlSet.pc = "idle"
    /\ wlFile \in SetLists
    /\ runWl[c].got = DEFAULT_WATCHLIST
    /\ runWl[c].atStart = DEFAULT_WATCHLIST
    /\ scanFs.tmp.data.watchlist = DEFAULT_WATCHLIST
    /\ latest.watchlist = DEFAULT_WATCHLIST

SameKeyPairs ==
  {p \in created \X created : p[1].id # p[2].id /\ p[1].key = p[2].key}

\* C2: two triggers with the same dedupeKey within the dedupe window create
\* exactly one alert: add() never creates an alert whose key it has already
\* created an alert for within the window.
C2_DedupeWithinWindow ==
  \A p \in SameKeyPairs :
    (p[2].at - p[1].at > DedupeWindow) \/ (p[1].at - p[2].at > DedupeWindow)

\* C3: for every scan run, identified by its runAt, at most one
\* NEW_TOP_SETUPS alert is ever created, however many ticks observe the
\* snapshot and however long after the first alert they do: no second one is
\* created once the dedupe window of the first has passed.
C3_OneTopAlertPerRun ==
  \A p \in SameKeyPairs :
    p[1].key.type = "TOP" =>
      (p[2].at - p[1].at <= DedupeWindow /\ p[1].at - p[2].at <= DedupeWindow)

AckedIn(A, id) == \E k \in 1 .. Len(A) : A[k].id = id /\ A[k].ack # 0
UnackedIn(A, id) == \E k \in 1 .. Len(A) : A[k].id = id /\ A[k].ack = 0

\* C4: an alert that is acknowledged in the store's memory is not
\* unacknowledged there after any step, and an alert that is acknowledged in
\* alerts.json is unacknowledged neither there nor in memory after any step.
C4_AckOneWay ==
  [][ \A id \in AlertIds :
        /\ AckedIn(alerts, id) => ~UnackedIn(alerts', id)
        /\ AckedIn(alertFs.main.data, id) =>
             /\ ~UnackedIn(alertFs'.main.data, id)
             /\ ~UnackedIn(alerts', id) ]_vars

PassesActive(kind) == {i \in TickIds : proc[<<i, kind>>].pc \in Active}

\* C5: at most one execution of the scanner pass and at most one execution
\* of the position pass is in flight at any time.
C5_NonReentrant ==
  /\ Cardinality(PassesActive("scan")) <= 1
  /\ Cardinality(PassesActive("pos")) <= 1

Sibling(p) == <<p[1], IF p[2] = "scan" THEN "pos" ELSE "scan">>
Fails(p) == proc[p].pc # "failed" /\ proc'[p].pc = "failed"

\* pass p, awaiting, has something to wait for: a response to come, or its
\* write in the store's queue
PassCanGoOn(p) ==
  \/ proc[p].pc \in {"io", "load", "notify"}
  \/ /\ proc[p].pc = "persist"
     /\ \E k \in 1 .. Len(writeQueue) : writeQueue[k].owner = p

\* pass p is where checkScanner / checkPositions return: after the last rule,
\* or where nothing is left to evaluate (no snapshot or no setups in it, no
\* client or no open position)
PassMayReturn(p) ==
  \/ proc[p].rule \in {"ENTRY", "STOP"}
  \/ proc[p].rule = "TOP" /\ (proc[p].pc = "io" \/ ~proc[p].top)
  \/ proc[p].rule = "LIQ" /\ proc[p].pc = "io"

SendFails(p) ==
  /\ proc[p].pc = "notify"
  /\ proc'[p].pc # "notify"
  /\ lastSend' = [proc |-> p, rule |-> proc[p].rule]

\* C12: when the notification send fails for a newly created alert, the
\* failure changes nothing in the store (the list in memory, the queue of
\* writes) or in alerts.json, where add() had put the alert before the send
\* was tried; createAlert returns, and the pass goes on to the rule that
\* follows (or returns after its last rule) without failing the tick.
C12_SendFailureKeepsAlert ==
  [][ \A p \in Procs \ {ApiProc} :
        /\ (proc[p].pc = "persist" /\ proc'[p].pc = "notify") =>
              \E k \in 1 .. Len(alertFs'.main.data) :
                alertFs'.main.data[k].key = Key(proc[p].rule, proc[p].ref)
        /\ SendFails(p) =>
              /\ UNCHANGED <<alerts, alertFs, writeQueue, wqRejected, loaded>>
              /\ proc'[p] = AfterRule(proc[p])
              /\ proc'[p].pc # "failed"
              /\ settled'[p[1]] =>
                    (settled[p[1]] \/ proc'[Sibling(p)].pc = "done") ]_vars

\* the send for the NEW_TOP_SETUPS alert has just failed: the alert is in the
\* store and in alerts.json, and the scanner pass is at its next rule
C12_Witness ==
  /\ lastSend = [proc |-> ScanPass(1), rule |-> "TOP"]
  /\ proc[ScanPass(1)] = At("io", "ENTRY", proc[ScanPass(1)].ref, TRUE)
  /\ \E k \in 1 .. Len(alerts) : alerts[k].key.type = "TOP"
  /\ alertFs.main.exists
  /\ \E k \in 1 .. Len(alertFs.main.data) : alertFs.main.data[k].key.type = "TOP"

\* what the store holds: the list in memory once loaded, alerts.json before
StoreContent == IF loaded THEN alerts ELSE loadedAlerts(alertFs)

\* the dedupeKey of the trigger pass p is about to hand to createAlert
TriggerKey(p) ==
  IF proc[p].rule = "TOP" /\ proc[p].pc = "io"
  THEN Key("TOP", readJsonFile(scanFs, NullScan).data.runAt)
  ELSE Key(proc[p].rule, proc[p].ref)

\* pass p's createAlert returns null: no alert is created, and the store
\* holds a recent alert with the trigger's dedupeKey
Suppressed(p) ==
  /\ proc[p].pc \in {"io", "load"}
  /\ proc'[p] # proc[p]
  /\ proc'[p].pc \notin {"load", "persist", "failed"}
  /\ nextId' = nextId
  /\ loaded'
  /\ findRecentByDedupeKey(alerts', TriggerKey(p), DedupeWindow)

\* C13: a rule trigger that is suppressed as a duplicate leaves the alert
\* store as it is: the store holds the same alerts with the same fields
\* (acknowledgedAt included), nothing is queued for or written to
\* alerts.json, and no notification is sent.
C13_SuppressedChangesNothing ==
  [][ \A p \in Procs \ {ApiProc} :
        Suppressed(p) =>
          /\ StoreContent' = StoreContent
          /\ UNCHANGED <<alertFs, writeQueue, lastSend>>
          /\ proc'[p].pc # "notify" ]_vars

IdsIn(A) == {A[k].id : k \in 1 .. Len(A)}

\* no call of the store is under way: nothing awaits a load or a write
StoreQuiet ==
  /\ writeQueue = <<>>
  /\ ~WriteUnderWay(alertFs)
  /\ \A p \in Procs : proc[p].pc \notin {"load", "persist"}

\* C14: the store holds at most maxAlerts alerts; an alert leaves the store
\* only when an add() finds the store full, and then it is the oldest-created
\* alert that leaves; and when no call of the store is under way, alerts.json
\* holds the same alerts as the list in memory.
C14_CapacityAndFile ==
  [][ /\ Len(alerts') <= MaxAlertsCap
      /\ \A id \in IdsIn(alerts) \ IdsIn(alerts') :
           /\ Len(alerts) = MaxAlertsCap
           /\ id = alerts[Len(alerts)].id
           /\ \A j \in 1 .. Len(alerts) :
                alerts[j].createdAt >= alerts[Len(alerts)].createdAt
           /\ IdsIn(alerts') \ IdsIn(alerts) # {}
      /\ (loaded' /\ StoreQuiet') => loadedAlerts(alertFs') = alerts' ]_vars

\* ------------------------------------------------------------ detectors
StopOnLossSide(s) ==
  IF s.direction = "LONG" THEN s.entry > s.stopLoss
  ELSE s.entry < s.stopLoss

TargetOnProfitSide(s) ==
  IF s.direction = "LONG" THEN s.takeProfit > s.entry
  ELSE s.takeProfit < s.entry

\* the stop of every emitted candidate is on the losing side of its entry
StopSideOfEveryCandidate ==
  detected.done =>
    \A i \in 1 .. Len(detected.setups) : StopOnLossSide(detected.setups[i])

\* C15: every candidate a detector emits has its stop on the losing side
\* of its entry and its take-profit on the winning side: entry > stopLoss
\* and takeProfit > entry for LONG, the mirrored inequalities for SHORT.
C15_DirectionInvariant ==
  detected.done =>
    \A i \in 1 .. Len(detected.setups) :
      /\ StopOnLossSide(detected.setups[i])
      /\ TargetOnProfitSide(detected.setups[i])

\* the 40-bar window of the scenario: a range with high 100, bar 28 closing
\* at 100.5, the final bar open 100.2, close 100.6, low 99.9; the bars are
\* 0.4 wide, which keeps a quarter of ATR under 0.15% of the close
ScenarioInputs ==
  {DetectorInput(UpWindow(40, 2, flip, 0, TRUE, ScenarioBar), "UP", 3, 10) :
     flip \in {0, 1}}

\* C16: on the scenario window with trend UP the breakout-retest detector
\* emits exactly one candidate, LONG, with entry 100, stopLoss below 100
\* and takeProfit above 100.
C16_BreakoutRetestScenario ==
  (detected.done /\ detectorInput \in ScenarioInputs) =>
    LET out == detectBreakoutRetest(detectorInput)
    IN  /\ Len(out) = 1
        /\ out[1].direction = "LONG"
        /\ out[1].entry = Fine(1000)
        /\ out[1].stopLoss < Fine(1000)
        /\ out[1].takeProfit > Fine(1000)

\* what the scenario window gives: a tolerance of 0.1509 and no candidate,
\* the close being more than twice the tolerance above the level
ScenarioIsRejected ==
  (detected.done /\ detectorInput \in ScenarioInputs) =>
    /\ tolerance(1006, detectorInput.indicators.atr14) = 15090
    /\ breakoutLevelOf(detectorInput.candles, TRUE) = 1000
    /\ detectBreakoutRetest(detectorInput) = <<>>

\* ------------------------------------------------------ liquidation rule
\* the row is a non-flat open position with a known liquidation price
Watched(p) ==
  /\ p.amount # 0
  /\ positionDirection(p) # "FLAT"
  /\ p.liquidationPrice # 0

\* the signed distance to liquidation, as a percentage of the mark price,
\* is at most the threshold
NearLiquidation(p, thresholdTenths) ==
  IF positionDirection(p) = "LONG"
  THEN (p.markPrice - p.liquidationPrice) * 1000
         <= thresholdTenths * p.markPrice
  ELSE (p.liquidationPrice - p.markPrice) * 1000
         <= thresholdTenths * p.markPrice

\* a CRITICAL LIQUIDATION_RISK alert keyed by (rule type, symbol, position
\* side) of the row was raised
RaisedFor(p) ==
  \E k \in 1 .. Len(liquidationCalls.calls) :
    liquidationCalls.calls[k] =
      [type |-> "LIQUIDATION_RISK", severity |-> "CRITICAL",
       dedupeKey |-> <<"LIQUIDATION_RISK", p.symbol, p.positionSide>>]

RECURSIVE openUpTo(_, _)
openUpTo(rows, k) ==
  IF k = 0 THEN 0
  ELSE openUpTo(rows, k - 1) + (IF rows[k].amount # 0 THEN 1 ELSE 0)

ExceedsCap(input) ==
  /\ input.walletEquity > 0
  /\ input.entry > 0
  /\ input.entry # input.stopLoss
  /\ input.riskPerTradePct * input.entry * 10
       > input.maxLeverage * AbsOf(input.entry - input.stopLoss)

\* C18 as stated: when the raw leverage exceeds the cap, leverageRequired
\* is the cap exactly and notionalUsd is walletEquity x cap exactly.
C18_ClampExact ==
  (sizing.done /\ ExceedsCap(sizingInput)) =>
    /\ ~sizing.isNull
    /\ sizing.leverageRequired * 10 = sizingInput.maxLeverage
    /\ sizing.notionalUsd * 10000
         = sizingInput.walletEquity * sizingInput.maxLeverage

\* the cap is positive and the sizing is computable: stop and target are
\* positive and the stop is nearer to the entry than zero is
Computable(input) ==
  /\ input.maxLeverage > 0
  /\ input.stopLoss > 0
  /\ input.takeProfit > 0
  /\ AbsOf(input.entry - input.stopLoss) < input.entry

\* C18 as the code has it: for a positive cap and a computable sizing,
\* leverageRequired is the cap and notionalUsd is walletEquity x cap, each
\* rounded to two decimals (within half a hundredth, halves upwards).
C18_ClampRounded ==
  (sizing.done /\ ExceedsCap(sizingInput) /\ Computable(sizingInput)) =>
    /\ ~sizing.isNull
    /\ sizing.leverageRequired * 10 - sizingInput.maxLeverage \in 0 - 4 .. 5
    /\ sizing.notionalUsd * 10000
         - sizingInput.walletEquity * sizingInput.maxLeverage
           \in 0 - 4999 .. 5000

\* equity 123.457 and cap 2.125 with a raw leverage of 5: leverageRequired
\* 2.13 and notionalUsd 262.35, neither the exact value
C18_Witness ==
  /\ sizing.done
  /\ ExceedsCap(sizingInput)
  /\ Computable(sizingInput)
  /\ sizingInput.walletEquity = 123457
  /\ sizingInput.maxLeverage = 2125
  /\ sizing.leverageRequired = 213
  /\ sizing.notionalUsd = 26235

\* ------------------------------------------- the scan as a function
\* the fixtures of a run: what the fetch of each symbol and timeframe
\* answered (scFetch) and what the detectors make of its candles
\* (scDetected).  FixtureOf(s) is what they hold for symbol s: nothing
\* when its 4h fetch failed, else the detections of its timeframes that
\* answered, 15m before 1h.
RECURSIVE fixtureUpTo(_, _)
fixtureUpTo(sym, t) ==
  IF t = 0 THEN <<>>
  ELSE fixtureUpTo(sym, t - 1)
         \o (IF scFetch[<<sym, Timeframes[t]>>] = "ok"
             THEN scDetected[<<sym, Timeframes[t]>>] ELSE <<>>)

FixtureOf(sym) ==
  IF scFetch[<<sym, TrendTimeframe>>] = "ok"
  THEN fixtureUpTo(sym, Len(Timeframes)) ELSE <<>>

RECURSIVE fixturesUpTo(_)
fixturesUpTo(n) ==
  IF n = 0 THEN <<>> ELSE fixturesUpTo(n - 1) \o FixtureOf(n)

\* the place of candidate c in the fixtures, in watchlist order
PlaceOf(c) ==
  CHOOSE k \in 1 .. Len(fixturesUpTo(MaxSymbols)) :
    fixturesUpTo(MaxSymbols)[k] = c

\* C19: the results of a scan are a function of its fixtures, watchlist and
\* configuration alone, whatever the order in which the fetches complete:
\* they are the finite candidates of the fixtures, each once, by falling
\* score, candidates of equal score in watchlist and timeframe order.
C19_ResultsFunctionOfInputs ==
  scPc = "returned" =>
    /\ \A k \in 1 .. Len(fixturesUpTo(MaxSymbols)) :
         fixturesUpTo(MaxSymbols)[k].finite =>
           \E j \in 1 .. Len(scOut.results) :
             scOut.results[j] = fixturesUpTo(MaxSymbols)[k]
    /\ \A j \in 1 .. Len(scOut.results) :
         /\ scOut.results[j].finite
         /\ \E k \in 1 .. Len(fixturesUpTo(MaxSymbols)) :
              fixturesUpTo(MaxSymbols)[k] = scOut.results[j]
    /\ \A j, k \in 1 .. Len(scOut.results) :
         j < k =>
           \/ scOut.results[j].score > scOut.results[k].score
           \/ /\ scOut.results[j].score = scOut.results[k].score
              /\ PlaceOf(scOut.results[j]) < PlaceOf(scOut.results[k])

\* symbol 2 lost its 15m fetch before symbol 1 lost its own, both have a
\* 1h candidate of score 2: symbol 1's comes first in the results
C19_Witness ==
  /\ scPc = "returned"
  /\ Len(scOut.errors) = 2
  /\ scOut.errors[1].symbol = 2
  /\ scOut.errors[2].symbol = 1
  /\ scOut.results = <<Candidate(1, Timeframes[2], 2, TRUE),
                       Candidate(2, Timeframes[2], 2, TRUE)>>

\* ---------------------------------------------- ticks that reach nothing
\* every pending read, write and send of the monitor returns or fails,
\* every pending fetch fails (or, the position fetch, answers); the timer
\* fires while the monitor is idle
FairOutage ==
  /\ WF_vars(tick(MaxTicks))
  /\ \A i \in TickIds :
       /\ WF_vars(ReadLatestScan(i))
       /\ WF_vars(PriceFail(i))
       /\ WF_vars(\E r \in {"fail", "safe"} : PositionsResp(i, r))
       /\ WF_vars(OrdersFail(i))
  /\ \A p \in Procs : WF_vars(PassLoadDone(p))
  /\ \A p \in Procs : WF_vars(TelegramResp(p, TRUE))
  /\ WF_vars(AlertWriteBegin)
  /\ WF_vars(AlertWriteDone \/ AlertWriteFail)

LiveSpecOutage == InitOutage /\ [][NextOutage]_vars /\ FairOutage

\* a failed price or open-orders fetch leaves its pass going
FetchFailureIsCaught(i) ==
  /\ PriceFail(i) => proc'[ScanPass(i)].pc # "failed"
  /\ OrdersFail(i) => proc'[PosPass(i)].pc # "failed"

\* a failed position fetch ends the tick, and the step that ends a tick
\* clears the running flag
TickEndClearsRunning(i) ==
  /\ (~settled[i] /\ PositionsResp(i, "fail")) => settled'[i]
  /\ (~settled[i] /\ settled'[i]) => ~monRunning'

\* a timer tick that finds the flag clear starts both passes
TickRunsBothPasses ==
  nTicks' = nTicks + 1 =>
    /\ ~monRunning
    /\ proc'[ScanPass(nTicks')] = At("io", "TOP", 0, FALSE)
    /\ proc'[PosPass(nTicks')] = At("io", "LIQ", 0, FALSE)

\* C20: a tick in which the position fetch, an open-orders fetch or a
\* price fetch fails does not wedge the engine: the failure is caught (a
\* price or orders failure leaves the pass going, a position failure ends
\* the tick), every tick that has started ends, the step that ends it
\* clears the running flag, and the timer tick that follows is let in and
\* starts both rule passes.
C20_TickFailureDoesNotWedge ==
  /\ [][\A i \in TickIds :
          FetchFailureIsCaught(i) /\ TickEndClearsRunning(i)]_vars
  /\ [][TickRunsBothPasses]_vars
  /\ [](~monRunning /\ nTicks < MaxTicks => ENABLED tick(MaxTicks))
  /\ \A i \in TickIds : (nTicks >= i) ~> settled[i]

\* the position fetch of the first tick failed (no store write did), and
\* the second tick has started both passes
C20_Witness ==
  /\ nTicks = 2
  /\ proc[PosPass(1)] = Failed
  /\ ~wqRejected
  /\ settled[1]
  /\ proc[ScanPass(2)].pc = "io"
  /\ proc[PosPass(2)].pc = "io"

\* ---- C21: malformed watchlist entries
Malformed(raw) == normalizeSymbol(raw) = NullSymbol
HasMalformed(body) ==
  body.isArray /\ \E i \in DOMAIN body.symbols : Malformed(body.symbols[i])

\* C21: a PUT /watchlist whose body contains a malformed entry (one that does
\* not normalise to 5-20 characters of A-Z0-9) is answered 400 with a reason
\* and no write of the watchlist begins: the store keeps the list it had.
C21_MalformedRejected ==
  [][\A body \in Bodies :
       PutWatchlist(body) /\ HasMalformed(body) =>
         /\ wlSet'.reply.status = 400
         /\ wlSet'.reply.message # ""
         /\ wlSet'.pc = "idle"]_vars

\* what the code does keep: a body with no valid entry at all, or one that is
\* not an array, is answered 400 with a reason and nothing is written
NoValidEntryRejected ==
  [][\A body \in Bodies :
       PutWatchlist(body) /\ (~body.isArray \/ normalizedOf(body.symbols) = <<>>) =>
         /\ wlSet'.reply.status = 400
         /\ wlSet'.reply.message # ""
         /\ wlSet'.pc = "idle"]_vars

\* the stored list differs from the list submitted, and the reply was 200
StoredDiffersFromSubmitted ==
  /\ wlSet.pc = "idle"
  /\ wlSet.reply.status = 200
  /\ HasMalformed(wlSet.body)
  /\ wlFile # wlSet.body.symbols

\* ---- C22: the store's lazy initial load
\* no add() has found the store full so far
NoEvictionYet == Cardinality(created) <= MaxAlertsCap
\* the write that add() awaited for alert c has completed (writes go through
\* writeQueue in the order of the calls): add() has returned for c
InFile(c) == c.id \in IdsIn(alertFs.main.data)

\* C22: as long as no add() has found the store full, every alert for which
\* add() has returned (its write of alerts.json has completed) is in the
\* list in memory of the loaded store, and stays in alerts.json after any
\* step, whatever the interleaving of the first-use calls of the two passes
\* and of the API.
C22_NoAlertLostByLoad ==
  /\ [](\A c \in created :
          (NoEvictionYet /\ loaded /\ InFile(c)) => c.id \in IdsIn(alerts))
  /\ [][\A c \in created :
          (NoEvictionYet' /\ InFile(c)) => InFile(c)']_vars

\* ---- C23: a failed write of alerts.json
\* this step is an add() that created an alert, or an acknowledge() that
\* set acknowledgedAt
StoreChanged ==
  \/ nextId' # nextId
  \/ /\ proc'[ApiProc] # proc[ApiProc]
     /\ \E id \in AlertIds :
          /\ UnackedIn(IF proc[ApiProc].pc = "load"
                       THEN loadedAlerts(alertFs) ELSE alerts, id)
          /\ AckedIn(alerts', id)

\* C23: every add() and every acknowledge() that changes the list hands the
\* new list to writeJsonFile (its write is the last of writeQueue and the
\* caller awaits it), also when an earlier write of alerts.json has failed:
\* the call is rejected only if its own write fails.
C23_WriteFailureNotSticky ==
  [][ StoreChanged =>
        /\ writeQueue' # <<>>
        /\ writeQueue'[Len(writeQueue')].snap = alerts'
        /\ proc'[writeQueue'[Len(writeQueue')].owner].pc = "persist" ]_vars

\* what the code does keep: before any write has failed, it is so
WritesQueuedBeforeFailure ==
  [][ (StoreChanged /\ ~wqRejected) =>
        /\ writeQueue' # <<>>
        /\ writeQueue'[Len(writeQueue')].snap = alerts'
        /\ proc'[writeQueue'[Len(writeQueue')].owner].pc = "persist" ]_vars

\* ---- C24: stop()
ScheduledCallers == {TimerCaller, InitialCaller}
RunBegins(c) == runPc[c] = "idle" /\ runPc'[c] # "idle"

\* C24: from the return of stop() until start() is called again, no schedule
\* timer is pending, nextRunAt is null and no run begins from a timer, also
\* when stop() was called while a timer-started run was in flight.
C24_StopIsFinal ==
  /\ [](~started => (~timer.armed /\ nextRunAt = 0))
  /\ [][(~started /\ ~started') =>
          \A c \in ScheduledCallers : ~RunBegins(c)]_vars

\* what the code does keep: at the return of stop() itself no schedule timer
\* is pending and nextRunAt is null
StopClearsSchedule ==
  [][(started /\ ~started') => (~timer'.armed /\ nextRunAt' = 0)]_vars

\* ---- C25: mapWithConcurrency
\* the symbols being processed, and the workers processing one
Processing == {scWorker[w].sym : w \in Workers} \ {0}
Busy == {w \in Workers : scWorker[w].sym # 0}
\* fn has returned for symbol s: its last fetch has been answered
Finished(s) ==
  \/ scFetch[<<s, TrendTimeframe>>] = "failed"
  \/ scFetch[<<s, Timeframes[Len(Timeframes)]>>] # "none"

\* C25: during a scan at most max(1, concurrency) symbols are being
\* processed; no symbol is processed by two workers or a second time, and
\* when the scan returns every symbol has been processed; each entry of
\* results[i] is a setup of symbols[i]; and the scan's results are computed
\* only when every symbol has finished.
C25_BoundedConcurrency ==
  /\ [](/\ Cardinality(Busy) <= (IF scConc > 1 THEN scConc ELSE 1)
        /\ \A v, w \in Busy : scWorker[v].sym = scWorker[w].sym => v = w
        /\ \A sym \in Symbols :
             /\ ~(sym \in Processing /\ Finished(sym))
             /\ scPc # "idle" =>
                  ((sym <= scIndex) <=> (sym \in Processing \/ Finished(sym)))
             /\ \A k \in 1 .. Len(scResults[sym]) :
                  scResults[sym][k].symbol = sym
        /\ scPc = "returned" =>
             (Processing = {} /\ \A sym \in Symbols : Finished(sym))
        /\ scPc # "returned" => scOut = [results |-> <<>>, errors |-> <<>>])
  /\ [][\A f \in Fetches : scFetch[f] # "none" => scFetch'[f] = scFetch[f]]_vars

\* a scan of more symbols than workers has returned with setups for every
\* symbol
C25_Witness ==
  /\ scPc = "returned"
  /\ scConc < MaxSymbols
  /\ \A sym \in Symbols : Len(scResults[sym]) > 0

\* ---- C26: the startup load of the snapshot
\* scanner-latest.json holds the result of a run that this process has
\* completed (the file left by an earlier process has runAt 1, the runs of
\* this process have runAt 2 or later; runs are written in clock order)
CompletedRunAt ==
  IF scanFs.main.exists /\ scanFs.main.data.runAt > 1
  THEN scanFs.main.data.runAt ELSE 0

\* C26: once a run with runAt = t has completed (its snapshot is written),
\* getLatest() returns a result with runAt >= t and getStatus().lastRunAt is
\* >= t, however the runs interleave with the load of the persisted snapshot
\* started by the constructor.
C26_ViewNeverGoesBack ==
  CompletedRunAt > 0 =>
    /\ latest.runAt >= CompletedRunAt
    /\ lastRunAt >= CompletedRunAt

\* what the code does keep: once the startup load has returned, latest and
\* lastRunAt never go back
ViewMonotoneAfterBoot ==
  [][bootPc = "done" =>
       /\ latest'.runAt >= latest.runAt
       /\ lastRunAt' >= lastRunAt]_vars

\* ---- C27: a failed run
\* what readLatestScan() returns (NullScan for null)
FileSnapshot == readJsonFile(scanFs, NullScan).data
\* caller c's run ends by throwing
RunThrows(c) ==
  /\ runPc[c] \in InFlight
  /\ runPc'[c] = "idle"
  /\ lastOutcome' = Outcome(c, "failed")

\* C27: when a run fails, at whatever step (the write of the snapshot file
\* included), getLatest() and lastRunAt are afterwards what they were before
\* the run: the snapshot that scanner-latest.json holds, which is what the
\* alert engine reads.
C27_FailedRunChangesNothing ==
  [][\A c \in Callers :
       (RunThrows(c) /\ bootPc = "done") =>
         /\ latest' = FileSnapshot'
         /\ lastRunAt' = FileSnapshot'.runAt]_vars

\* what the code does keep: a run that fails before the write of the
\* snapshot leaves latest, lastRunAt and the file as they were
EarlyFailureChangesNothing ==
  [][\A c \in Callers :
       (RunThrows(c) /\ runPc[c] = "fetching") =>
         UNCHANGED <<latest, lastRunAt, scanFs>>]_vars

\* ---- C28: the alerts export
\* an export response is sent by this step
ExportServed == expReq'.served # expReq.served
\* the response body shows alert a as it is (acknowledged or not)
Shows(format, body, a) ==
  \E k \in 1 .. Len(body) :
    IF format = "csv"
    THEN /\ body[k].id = a.id
         /\ body[k].acknowledgedAt.empty = (a.ack = 0)
         /\ body[k].acknowledgedAt.text = a.ack
    ELSE body[k] = a

\* C28: every export response shows the alerts that alerts.json holds when
\* it is sent, each with its acknowledgement: every alert the alert engine
\* has added and every acknowledgement made before the request, also when an
\* earlier export request was served before them.
C28_ExportIsCurrent ==
  [][ExportServed =>
       \A k \in 1 .. Len(alertFs.main.data) :
         Shows(expReq'.format, expReq'.body, alertFs.main.data[k])]_vars

\* what the code does keep: the first export response, which loads the
\* routes' store, shows what alerts.json holds
FirstExportIsCurrent ==
  [][(ExportServed /\ ~expStore.loaded) =>
       \A k \in 1 .. Len(alertFs.main.data) :
         Shows(expReq'.format, expReq'.body, alertFs.main.data[k])]_vars

\* ---- C29: acknowledgement and dedupe
\* pass p's createAlert gets the answer of findRecentByDedupeKey by this step
Decides(p) ==
  /\ proc[p].rule = "TOP"
  /\ proc[p].pc \in {"io", "load"}
  /\ proc'[p] # proc[p]
  /\ proc'[p].pc # "load"
  /\ proc[p].pc = "io" => readJsonFile(scanFs, NullScan).ok
\* the list findRecentByDedupeKey of pass p goes through: the list in
\* memory, or what ensureLoaded has just read
ListSeen(p) == IF proc[p].pc = "load" THEN loadedAlerts(alertFs) ELSE alerts
\* list A with every acknowledgement removed
RECURSIVE neverAcknowledged(_)
neverAcknowledged(A) ==
  IF A = <<>> THEN <<>>
  ELSE <<[Head(A) EXCEPT !.ack = 0]>> \o neverAcknowledged(Tail(A))

\* C29: a rule trigger is suppressed exactly when the store holds an alert
\* with the trigger's dedupeKey created within the dedupe window, be that
\* alert acknowledged or not.
C29_DedupeIgnoresAck ==
  [][\A p \in Procs \ {ApiProc} :
       Decides(p) =>
         ((nextId' = nextId) <=>
            findRecentByDedupeKey(neverAcknowledged(StoreContent),
                                  TriggerKey(p), DedupeWindow))]_vars

\* what the code does keep: the trigger is suppressed exactly when the list
\* its call goes through holds such an alert, acknowledged or not
DedupeOnListSeen ==
  [][\A p \in Procs \ {ApiProc} :
       Decides(p) =>
         ((nextId' = nextId) <=>
            findRecentByDedupeKey(neverAcknowledged(ListSeen(p)),
                                  TriggerKey(p), DedupeWindow))]_vars

\* an old unacknowledged alert has not suppressed a new one of its key
OldUnacknowledgedDoesNotSuppress ==
  /\ loaded
  /\ Len(alerts) >= 2
  /\ alerts[1].key = alerts[2].key
  /\ alerts[2].ack = 0
  /\ alerts[1].createdAt - alerts[2].createdAt > DedupeWindow


\* C30: trend gates direction.  In what the worker produces for a symbol,
\* a NEUTRAL 4h trend leaves no candidate on any timeframe, every candidate
\* under trend UP is LONG and under trend DOWN is SHORT, and no two
\* candidates share (symbol, timeframe, strategy).
SlotOf(s) == <<s.symbol, s.timeframe, s.strategy>>
C30_TrendGatesDirection ==
  (detected.done /\ "trend4h" \in DOMAIN detected) =>
    /\ detected.trend4h = "NEUTRAL" => detected.setups = <<>>
    /\ \A i \in 1 .. Len(detected.setups) :
         /\ detected.trend4h = "UP" => detected.setups[i].direction = "LONG"
         /\ detected.trend4h = "DOWN" => detected.setups[i].direction = "SHORT"
    /\ \A i, j \in 1 .. Len(detected.setups) :
         i # j => SlotOf(detected.setups[i]) # SlotOf(detected.setups[j])

\* a symbol in an up-trend with candidates on both timeframes
C30_Witness ==
  /\ detected.done
  /\ detectorInput.failed = {}
  /\ "trend4h" \in DOMAIN detected
  /\ detected.trend4h = "UP"
  /\ \A t \in 1 .. Len(Timeframes) :
       \E i \in 1 .. Len(detected.setups) :
         /\ detected.setups[i].timeframe = Timeframes[t]
         /\ detected.setups[i].direction = "LONG"

====
